---------------------------- MODULE Spec2Model ----------------------------
(***************************************************************************)
(* Model of the home video-surveillance dashboard front end                *)
(* (Feng-Yousanlang/demo09): the zones page's polygon authoring and        *)
(* submission, the canvas renderers, the WebSocket/render-loop lifecycle   *)
(* of the pages, the face list's status toggle and the event store.        *)
(*                                                                         *)
(* Each page is a Vue component with its own refs; the variables below     *)
(* that several pages declare under the same name (cameraStatus,           *)
(* videoStreamUrl, videoCanvas, ws, animationId) are those of the page     *)
(* instance named by `page`.                                               *)
(***************************************************************************)
EXTENDS Integers, Sequences, FiniteSets, TLC

VARIABLES
    page,            \* the component instance the behaviour is about
    lastOp,          \* the handler (and its outcome) that ran last
    notice,          \* the ElMessage the last handler showed ("none": none)
    \* ---- zones page (Zones.vue 194-632)
    zones, selectedZone, drawMode, currentPoints, showZoneDialog,
    editingZone, zoneForm, submitting, submitPc, zoneReq, zoneFetches,
    \* ---- canvas and stream image of the page
    canvas, rect, img, cameraStatus, videoStreamUrl, videoError, drawn,
    drawErrors,      \* console.error / console.warn calls of the draw catches
    resized,         \* the last draw assigned canvas.width and canvas.height
    lastClick,       \* offsets of the last click event a handler captured
    consoleLog,      \* the last console.log output of a click handler
    \* ---- live monitor / face recognition only
    videoLoaded, videoErrorRetry, streamTimers, dangerZones,
    \* ---- component lifecycle: mount hook, WebSocket, render loop
    mounted, mountPc, ws, socks, wsTimers, wsConnected,
    animationId, rafPending, rafNext,
    \* ---- face management page: rows, the backend's flags, toggle requests
    faces, serverActive, toggleReqs, faceGen, doneReq,
    \* ---- event store and the events page's mark-read requests
    events, recentEvents, unreadCount, markReqs, storeThrew, doneMark,
    \* ---- state written by WebSocket pushes; the system store
    detectedFaces, recognizedFaces, strangers, dangerZoneViolations,
    realtimeAlerts, systemStatus, systemError, lastMsg,
    \* ---- login page (Zones.vue 1401-1809) and its displayed SlideVerify
    activeTab, loginForm, registerForm, registerInitial,
    isLoginSlideVerified, isRegisterSlideVerified, loginLoading,
    registerLoading, authReqs, adminToken,
    thumbLeft, isDragging, isVerified,
    \* ---- face registration forms (FaceManagement upload, Faces add dialog)
    uploadForm, uploading, faceList, addForm, showAddDialog, addSubmitting,
    regPc, regReq,
    \* ---- faces page: recognition history dialog
    recognitionHistory, selectedUser, showHistoryDialog, historyLoading,
    histReqs,
    \* ---- zones page: delete requests in flight
    deleteReqs

zoneVars == <<zones, selectedZone, drawMode, currentPoints, showZoneDialog,
              editingZone, zoneForm, submitting, submitPc, zoneReq,
              zoneFetches>>
renderVars == <<canvas, rect, img, cameraStatus, videoStreamUrl, videoError,
                drawn, drawErrors, resized, lastClick, consoleLog>>
camVars == <<videoLoaded, videoErrorRetry, streamTimers>>
lifeVars == <<mounted, mountPc, ws, socks, wsTimers, wsConnected,
              animationId, rafPending, rafNext, dangerZones>>
faceVars == <<faces, serverActive, toggleReqs, faceGen, doneReq>>
eventVars == <<events, recentEvents, unreadCount, markReqs, storeThrew,
               doneMark>>
pushVars == <<detectedFaces, recognizedFaces, strangers, dangerZoneViolations,
              realtimeAlerts, systemStatus, systemError, lastMsg>>
loginVars == <<activeTab, loginForm, registerForm, registerInitial,
               isLoginSlideVerified, isRegisterSlideVerified, loginLoading,
               registerLoading, authReqs, adminToken>>
slideVars == <<thumbLeft, isDragging, isVerified>>
regVars == <<uploadForm, uploading, faceList, addForm, showAddDialog,
             addSubmitting, regPc, regReq>>
histVars == <<recognitionHistory, selectedUser, showHistoryDialog,
              historyLoading, histReqs>>
formVars == <<loginVars, slideVars, regVars, histVars, deleteReqs>>
vars == <<page, lastOp, notice, zoneVars, renderVars, camVars, lifeVars,
          faceVars, eventVars, pushVars, formVars>>

\* what the handlers of the zones page never touch
offZones == <<camVars, lifeVars, faceVars, eventVars, pushVars, formVars>>
\* what the camera, image and click handlers never touch
offRender == <<lifeVars, faceVars, eventVars, pushVars, formVars>>
\* what the mount hooks, socket handlers and render loops never touch
offLife == <<faceVars, eventVars, pushVars, formVars>>

----------------------------------------------------------------------------
(* Bounds of the model *)

MaxPoints == 3        \* longest point buffer explored
MaxFetches == 1       \* most GET /api/zone requests in flight at once

----------------------------------------------------------------------------
(* Numbers: JavaScript numbers are modelled as non-negative rationals      *)
(* <<numerator, denominator>> in lowest terms.                             *)

RECURSIVE GCD(_, _)
GCD(a, b) == IF b = 0 THEN a ELSE GCD(b, a % b)

Frac(n, d) == LET g == GCD(n, d) IN <<n \div g, d \div g>>
Whole(n) == <<n, 1>>
FracDiv(a, b) == Frac(a[1] * b[2], a[2] * b[1])
FracMul(a, b) == Frac(a[1] * b[1], a[2] * b[2])

----------------------------------------------------------------------------
(* Inputs *)

\* on-screen offsets (event.clientX - rect.left, event.clientY - rect.top)
ClickOffsets == {<<10, 10>>, <<50, 30>>}
\* the offsets clicked while a polygon is authored on the zones page
ZoneClickOffsets == {<<50, 30>>}
\* displayed CSS sizes of the canvas (getBoundingClientRect)
RectSizes == {[w |-> 640, h |-> 480], [w |-> 320, h |-> 200]}
\* the displayed size of the zones page's canvas while a polygon is authored
ZonesRect == [w |-> 320, h |-> 200]
\* what the user can type into the name field
Names == {"", "Pool"}

\* a canvas element's backing store before anything assigns it
DefaultCanvas == [w |-> 300, h |-> 150]
\* the fixed backing-store size drawFrame assigns
ZonesCanvas == [w |-> 640, h |-> 480]

\* every renderer assigning the backing store only when the size it needs
\* (640x480 on the zones page and the live monitor) differs from the
\* current one
CanvasAssigned_WhenChanged(pg, cv, image) ==
    IF pg = "Face" THEN cv.w # image.nw \/ cv.h # image.nh
    ELSE cv # ZonesCanvas

\* whether a draw that gets to its sizing statements assigns canvas.width
\* and canvas.height: the zones page and the live monitor always do, the
\* face-recognition page only when the canvas differs from the image
CanvasAssigned(pg, cv, image) ==
    IF pg = "Face" THEN cv.w # image.nw \/ cv.h # image.nh
    ELSE TRUE

Pt(x, y) == [x |-> x, y |-> y]

\* the zone lists GET /api/zone can answer with (the backend is external):
\* none, a valid triangle, a stored zone with two vertices only
ZoneLists ==
    { <<>>,
      << [id |-> 1, name |-> "Yard", stay_threshold |-> 10, is_active |-> TRUE,
          coordinates |-> << Pt(Whole(10), Whole(10)), Pt(Whole(50), Whole(10)),
                             Pt(Whole(50), Whole(50)) >>] >>,
      << [id |-> 1, name |-> "Gate", stay_threshold |-> 10, is_active |-> FALSE,
          coordinates |-> << Pt(Whole(10), Whole(10)),
                             Pt(Whole(50), Whole(50)) >>] >> }

----------------------------------------------------------------------------
(* Zones page: state declarations *)

\* the body of a successful GET /api/zone: the {success, message, data}
\* envelope around the zone list
Envelope(list) == [success |-> TRUE, message |-> "ok", data |-> list]
\* response.data.data || [] (zones page)
DataField(resp) == IF "data" \in DOMAIN resp THEN resp.data ELSE <<>>
\* response.data.zones || [] (live monitor)
ZonesField(resp) == IF "zones" \in DOMAIN resp THEN resp.zones ELSE <<>>

EmptyZoneForm == [name |-> "", stay_threshold |-> 10, is_active |-> TRUE,
                  coordinates |-> <<>>]
NoReq == [kind |-> "none", id |-> 0, data |-> EmptyZoneForm]

ZonesPageInit ==
    /\ zones = <<>>
    /\ selectedZone = 0
    /\ drawMode = FALSE
    /\ currentPoints = <<>>
    /\ showZoneDialog = FALSE
    /\ editingZone = 0
    /\ zoneForm = EmptyZoneForm
    /\ submitting = FALSE
    /\ submitPc = "idle"
    /\ zoneReq = NoReq
    /\ zoneFetches = 1              \* onMounted: await fetchZones()

\* zoneRules: name required, 2..50 characters (stay_threshold is kept in
\* 1..300 by the input-number widget)
FormValid(form) == Len(form.name) >= 2 /\ Len(form.name) <= 50

----------------------------------------------------------------------------
(* Stream image element.  The <img> exists only while its v-if holds; its  *)
(* load state is img = [complete, nw, nh] (naturalWidth, naturalHeight).   *)

NoImage == [complete |-> FALSE, nw |-> 0, nh |-> 0]

\* v-if of the <img ref="videoStream">
ImgPresent(pg, cam, url) ==
    IF pg = "Zones" THEN url # "" ELSE cam = "running"

----------------------------------------------------------------------------
(* Zones page: drawFrame *)

\* what one call of drawFrame leaves on the canvas, as the list of layers
ZonesDrawn(cam, verr, url, image) ==
    IF cam # "running" THEN <<"msg_camera_stopped">>
    ELSE IF verr THEN <<"msg_stream_failed">>
    ELSE IF ~ImgPresent("Zones", cam, url) \/ ~image.complete \/ image.nw = 0
         THEN <<"msg_loading">>
    ELSE <<"image", "zones", "current">>

\* drawFrame assigns the backing store on every call
ZonesCanvasAfterDraw(cv) == ZonesCanvas

ZonesDrawFrame ==
    /\ canvas' = ZonesCanvasAfterDraw(canvas)
    /\ drawn' = ZonesDrawn(cameraStatus, videoError, videoStreamUrl, img)
    /\ resized' = CanvasAssigned("Zones", canvas, img)
    /\ UNCHANGED drawErrors

----------------------------------------------------------------------------
(* Zones page: polygon authoring *)

MinFinishPoints == 3
MinSubmitPoints == 3

\* handleCanvasClick scaling both axes by the horizontal ratio
ScaleClick_OneRatio(off, cv, rc) ==
    LET scaleX == FracDiv(Whole(cv.w), Whole(rc.w))
    IN  Pt(FracMul(Whole(off[1]), scaleX), FracMul(Whole(off[2]), scaleX))

\* handleCanvasClick's rescaling of an on-screen offset to canvas space
ScaleClick(off, cv, rc) ==
    LET scaleX == FracDiv(Whole(cv.w), Whole(rc.w))
        scaleY == FracDiv(Whole(cv.h), Whole(rc.h))
    IN  Pt(FracMul(Whole(off[1]), scaleX), FracMul(Whole(off[2]), scaleY))

\* the el-dialog is modal: while it is open its overlay covers the page
PageUi == page = "Zones" /\ ~showZoneDialog
DialogUi == page = "Zones" /\ showZoneDialog

ZonesHandleCanvasClick(off) ==
    /\ PageUi
    /\ IF ~drawMode
       THEN /\ lastOp' = "click_ignored"
            /\ UNCHANGED <<currentPoints, canvas, drawn, drawErrors, resized, lastClick, consoleLog>>
       ELSE /\ currentPoints' = Append(currentPoints, ScaleClick(off, canvas, rect))
            /\ lastClick' = off
            /\ ZonesDrawFrame            \* nextTick(drawFrame)
            /\ lastOp' = "click_point"
    /\ notice' = "none"
    /\ UNCHANGED <<page, zones, selectedZone, drawMode, showZoneDialog,
                   editingZone, zoneForm, submitting, submitPc, zoneReq,
                   zoneFetches, rect, img, cameraStatus,
                   videoStreamUrl, videoError, consoleLog>>
    /\ UNCHANGED offZones

\* handleRightClick accepting a two-point buffer
FinishRejected_OffByOne(dm, pts) == ~dm \/ Len(pts) < MinFinishPoints - 1

\* the guard of handleRightClick
FinishRejected(dm, pts) == ~dm \/ Len(pts) < MinFinishPoints

HandleRightClick ==
    /\ PageUi
    /\ IF FinishRejected(drawMode, currentPoints)
       THEN /\ notice' = "warning_need_3_points"
            /\ lastOp' = "finish_rejected"
            /\ UNCHANGED <<zoneForm, showZoneDialog, drawMode>>
       ELSE /\ zoneForm' = [zoneForm EXCEPT !.coordinates = currentPoints]
            /\ showZoneDialog' = TRUE
            /\ drawMode' = FALSE
            /\ lastOp' = "finish_accepted"
            /\ notice' = "none"
    /\ UNCHANGED <<page, zones, selectedZone, currentPoints, editingZone,
                   submitting, submitPc, zoneReq, zoneFetches,
                   renderVars>>
    /\ UNCHANGED offZones

StartDrawing ==
    /\ PageUi
    /\ drawMode' = TRUE
    /\ currentPoints' = <<>>
    /\ selectedZone' = 0
    /\ lastOp' = "start_drawing"
    /\ notice' = "none"
    /\ UNCHANGED <<page, zones, showZoneDialog, editingZone, zoneForm,
                   submitting, submitPc, zoneReq, zoneFetches,
                   renderVars>>
    /\ UNCHANGED offZones

ToggleDrawMode ==
    /\ PageUi
    /\ drawMode' = ~drawMode
    /\ currentPoints' = IF ~drawMode' THEN <<>> ELSE currentPoints
    /\ lastOp' = "toggle_draw_mode"
    /\ notice' = "none"
    /\ UNCHANGED <<page, zones, selectedZone, showZoneDialog,
                   editingZone, zoneForm, submitting, submitPc, zoneReq,
                   zoneFetches, renderVars>>
    /\ UNCHANGED offZones

ClearDrawing ==
    /\ PageUi
    /\ currentPoints' = <<>>
    /\ ZonesDrawFrame
    /\ lastOp' = "clear_drawing"
    /\ notice' = "none"
    /\ UNCHANGED <<page, zones, selectedZone, drawMode, showZoneDialog,
                   editingZone, zoneForm, submitting, submitPc, zoneReq,
                   zoneFetches, rect, img, cameraStatus,
                   videoStreamUrl, videoError, lastClick, consoleLog>>
    /\ UNCHANGED offZones

\* the button is rendered only while the form holds coordinates
ClearCoordinates ==
    /\ DialogUi
    /\ Len(zoneForm.coordinates) > 0
    /\ zoneForm' = [zoneForm EXCEPT !.coordinates = <<>>]
    /\ currentPoints' = <<>>
    /\ ZonesDrawFrame
    /\ lastOp' = "clear_coordinates"
    /\ notice' = "none"
    /\ UNCHANGED <<page, zones, selectedZone, drawMode, showZoneDialog,
                   editingZone, submitting, submitPc, zoneReq, zoneFetches, rect, img, cameraStatus, videoStreamUrl,
                   videoError, lastClick, consoleLog>>
    /\ UNCHANGED offZones

ResetView ==
    /\ PageUi
    /\ selectedZone' = 0
    /\ drawMode' = FALSE
    /\ currentPoints' = <<>>
    /\ ZonesDrawFrame
    /\ lastOp' = "reset_view"
    /\ notice' = "none"
    /\ UNCHANGED <<page, zones, showZoneDialog, editingZone, zoneForm,
                   submitting, submitPc, zoneReq, zoneFetches,
                   rect, img, cameraStatus, videoStreamUrl, videoError,
                   lastClick, consoleLog>>
    /\ UNCHANGED offZones


\* editingZone holds the zone object; the model keeps its id (0 for null)
EditZone(i) ==
    /\ PageUi
    /\ i \in 1..Len(zones)
    /\ editingZone' = zones[i].id
    /\ zoneForm' = [name |-> zones[i].name,
                    stay_threshold |-> zones[i].stay_threshold,
                    is_active |-> zones[i].is_active,
                    coordinates |-> zones[i].coordinates]
    /\ currentPoints' = zones[i].coordinates
    /\ showZoneDialog' = TRUE
    /\ lastOp' = "edit_zone"
    /\ notice' = "none"
    /\ UNCHANGED <<page, zones, selectedZone, drawMode, submitting,
                   submitPc, zoneReq, zoneFetches, renderVars>>
    /\ UNCHANGED offZones

\* the dialog's cancel button (and its close icon / overlay click)
CancelDialog ==
    /\ DialogUi
    /\ showZoneDialog' = FALSE
    /\ lastOp' = "cancel_dialog"
    /\ notice' = "none"
    /\ UNCHANGED <<page, zones, selectedZone, drawMode, currentPoints,
                   editingZone, zoneForm, submitting, submitPc, zoneReq,
                   zoneFetches, renderVars>>
    /\ UNCHANGED offZones

\* typing into the name field (v-model="zoneForm.name")
SetZoneName(n) ==
    /\ DialogUi
    /\ n # zoneForm.name
    /\ zoneForm' = [zoneForm EXCEPT !.name = n]
    /\ lastOp' = "set_name"
    /\ notice' = "none"
    /\ UNCHANGED <<page, zones, selectedZone, drawMode, currentPoints,
                   showZoneDialog, editingZone, submitting, submitPc, zoneReq,
                   zoneFetches, renderVars>>
    /\ UNCHANGED offZones

----------------------------------------------------------------------------
(* Zones page: list fetch and form submission *)

\* submitZoneForm without its vertex-count check
TooFewVertices_Unchecked(coords) == FALSE

\* the check submitZoneForm makes after validate()
TooFewVertices(coords) == Len(coords) < MinSubmitPoints
\* the payload built with the vertices in reverse order
ZoneData_Reversed(form) ==
    [name |-> form.name, stay_threshold |-> form.stay_threshold,
     is_active |-> form.is_active,
     coordinates |-> [i \in 1..Len(form.coordinates) |->
                        form.coordinates[Len(form.coordinates) + 1 - i]]]

ZoneData(form) == [name |-> form.name, stay_threshold |-> form.stay_threshold,
                   is_active |-> form.is_active, coordinates |-> form.coordinates]
\* submitZoneForm always creating
SubmitKind_AlwaysPost(editing) == "post"

\* the create/update branch of submitZoneForm
SubmitKind(editing) == IF editing # 0 THEN "put" ELSE "post"

\* submitZoneForm up to its first network await
SubmitZoneForm ==
    /\ DialogUi
    /\ ~submitting                       \* :loading="submitting" disables the button
    /\ IF ~FormValid(zoneForm)
       THEN \* validate() rejects: catch, finally
            /\ notice' = IF editingZone # 0 THEN "error_update_failed"
                                             ELSE "error_create_failed"
            /\ lastOp' = "submit_invalid"
            /\ UNCHANGED <<submitting, submitPc, zoneReq>>
       ELSE IF TooFewVertices(zoneForm.coordinates)
       THEN /\ notice' = "error_need_3_vertices"
            /\ lastOp' = "submit_too_few"
            /\ UNCHANGED <<submitting, submitPc, zoneReq>>
       ELSE /\ submitting' = TRUE
            /\ submitPc' = "call"
            /\ zoneReq' = [kind |-> SubmitKind(editingZone), id |-> editingZone,
                           data |-> ZoneData(zoneForm)]
            /\ lastOp' = "submit_sent"
            /\ notice' = "none"
    /\ UNCHANGED <<page, zones, selectedZone, drawMode, currentPoints,
                   showZoneDialog, editingZone, zoneForm, zoneFetches, renderVars>>
    /\ UNCHANGED offZones

\* resetZoneForm
ResetZoneForm ==
    /\ zoneForm' = EmptyZoneForm
    /\ currentPoints' = <<>>
    /\ editingZone' = 0

\* the create/update call resolves: close the dialog, reset, refetch
SubmitCallOk ==
    /\ page = "Zones"
    /\ submitPc = "call"
    /\ notice' = IF editingZone # 0 THEN "success_updated" ELSE "success_created"
    /\ showZoneDialog' = FALSE
    /\ ResetZoneForm
    /\ submitPc' = "refetch"             \* await fetchZones()
    /\ zoneReq' = NoReq
    /\ lastOp' = "submit_ok"
    /\ UNCHANGED <<page, zones, selectedZone, drawMode, submitting,
                   zoneFetches, renderVars>>
    /\ UNCHANGED offZones

\* the create/update call rejects: catch, finally
SubmitCallFail ==
    /\ page = "Zones"
    /\ submitPc = "call"
    /\ notice' = IF editingZone # 0 THEN "error_update_failed"
                                     ELSE "error_create_failed"
    /\ submitting' = FALSE
    /\ submitPc' = "idle"
    /\ zoneReq' = NoReq
    /\ lastOp' = "submit_failed"
    /\ UNCHANGED <<page, zones, selectedZone, drawMode, currentPoints,
                   showZoneDialog, editingZone, zoneForm, zoneFetches, renderVars>>
    /\ UNCHANGED offZones

\* the fetchZones awaited by submitZoneForm settles (it never rejects)
SubmitRefetchDone(ok, list) ==
    /\ page = "Zones"
    /\ submitPc = "refetch"
    /\ zones' = IF ok THEN DataField(Envelope(list)) ELSE zones
    /\ notice' = IF ok THEN "none" ELSE "error_fetch_zones"
    /\ submitting' = FALSE
    /\ submitPc' = "idle"
    /\ lastOp' = IF ok THEN "refetch_ok" ELSE "refetch_failed"
    /\ UNCHANGED <<page, selectedZone, drawMode, currentPoints, showZoneDialog,
                   editingZone, zoneForm, zoneReq, zoneFetches,
                   renderVars>>
    /\ UNCHANGED offZones

\* refreshZones: fetchZones() then resetView()
RefreshZones ==
    /\ PageUi
    /\ zoneFetches < MaxFetches
    /\ zoneFetches' = zoneFetches + 1
    /\ selectedZone' = 0
    /\ drawMode' = FALSE
    /\ currentPoints' = <<>>
    /\ ZonesDrawFrame
    /\ lastOp' = "refresh_zones"
    /\ notice' = "none"
    /\ UNCHANGED <<page, zones, showZoneDialog, editingZone, zoneForm,
                   submitting, submitPc, zoneReq, rect, img,
                   cameraStatus, videoStreamUrl, videoError, lastClick,
                   consoleLog>>
    /\ UNCHANGED offZones

\* a GET /api/zone issued by refreshZones or onMounted settles
FetchZonesDone(ok, list) ==
    /\ page = "Zones"
    /\ zoneFetches > 0
    /\ zoneFetches' = zoneFetches - 1
    /\ zones' = IF ok THEN DataField(Envelope(list)) ELSE zones
    /\ notice' = IF ok THEN "none" ELSE "error_fetch_zones"
    /\ lastOp' = IF ok THEN "fetch_ok" ELSE "fetch_failed"
    /\ UNCHANGED <<page, selectedZone, drawMode, currentPoints, showZoneDialog,
                   editingZone, zoneForm, submitting, submitPc, zoneReq, renderVars>>
    /\ UNCHANGED offZones

\* one turn of the page's render loop (frameUpdate)
ZonesTick ==
    /\ page = "Zones"
    /\ ZonesDrawFrame
    /\ lastOp' = "tick"
    /\ notice' = "none"
    /\ UNCHANGED <<page, zoneVars, rect, img, cameraStatus,
                   videoStreamUrl, videoError, lastClick, consoleLog>>
    /\ UNCHANGED offZones

----------------------------------------------------------------------------
(* The zones page from its construction, with the list fetch of onMounted  *)
(* in flight.                                                              *)

RenderInit ==
    /\ canvas = DefaultCanvas
    /\ img = NoImage
    /\ cameraStatus = "stopped"
    /\ videoError = FALSE
    /\ drawn = <<>>
    /\ drawErrors = 0
    /\ resized = FALSE
    /\ lastClick = <<0, 0>>
    /\ consoleLog = Pt(Whole(0), Whole(0))
    /\ videoLoaded = FALSE
    /\ videoErrorRetry = 0
    /\ streamTimers = 0
    /\ dangerZones = <<>>

FaceIds == {1, 2}

NoToggle == [idx |-> 0, id |-> 0, sent |-> FALSE, before |-> FALSE, gen |-> 0]

\* faces = ref([]); no request sent yet
FacesPageInit ==
    /\ faces = <<>>
    /\ toggleReqs = <<>>
    /\ faceGen = 0
    /\ doneReq = NoToggle

NoMark == [kind |-> "none", id |-> 0]

\* state() of the event store; no request sent yet
EventStoreInit ==
    /\ events = <<>>
    /\ recentEvents = <<>>
    /\ unreadCount = 0
    /\ markReqs = <<>>
    /\ storeThrew = FALSE
    /\ doneMark = NoMark

\* a WebSocket frame {type, data}
Msg(t, hf, fl, hv, vl, ev, st) ==
    [type |-> t, hasFaces |-> hf, faces |-> fl, hasViolations |-> hv,
     violations |-> vl, event |-> ev, status |-> st]

\* no frame handled in this step
NoMsg == Msg("none", FALSE, <<>>, FALSE, <<>>, [id |-> 0, is_read |-> FALSE], [x \in {} |-> 0])

\* state() of the system store (two of its status fields are modelled)
DefaultSystemStatus == [overall_status |-> "healthy", video_service |-> "running"]

\* no push handled yet
PushInit ==
    /\ detectedFaces = <<>>
    /\ recognizedFaces = <<>>
    /\ strangers = <<>>
    /\ dangerZoneViolations = <<>>
    /\ realtimeAlerts = <<>>
    /\ systemStatus = DefaultSystemStatus
    /\ systemError = "null"
    /\ lastMsg = NoMsg
\* reactive({username: '', password: ''})
EmptyLoginForm == [username |-> "", password |-> ""]

\* reactive({username: '', password: '', confirmPassword: ''})
EmptyRegisterForm == [username |-> "", password |-> "", confirmPassword |-> ""]

\* the refs of a SlideVerify instance as its setup and onMounted leave them
SlideInit ==
    /\ thumbLeft = 0
    /\ isDragging = FALSE
    /\ isVerified = FALSE

\* the login component after setup: login tab shown, nothing verified or sent
LoginPageInit ==
    /\ activeTab = "login"
    /\ loginForm = EmptyLoginForm
    /\ registerForm = EmptyRegisterForm
    /\ registerInitial = EmptyRegisterForm
    /\ isLoginSlideVerified = FALSE
    /\ isRegisterSlideVerified = FALSE
    /\ loginLoading = FALSE
    /\ registerLoading = FALSE
    /\ authReqs = {}
    /\ adminToken = "null"

\* reactive({name: '', file: null})
EmptyUploadForm == [name |-> "", file |-> "null"]

\* reactive({name: '', image: null, ...})
EmptyAddForm == [name |-> "", image |-> "null"]

\* no registration request in flight
NoReg == [name |-> "", image |-> ""]

\* the two face registration forms after setup
RegInit ==
    /\ uploadForm = EmptyUploadForm
    /\ uploading = FALSE
    /\ faceList = <<>>
    /\ addForm = EmptyAddForm
    /\ showAddDialog = FALSE
    /\ addSubmitting = FALSE
    /\ regPc = "idle"
    /\ regReq = NoReg
\* recognitionHistory = ref([]), selectedUser = ref(null), no request sent
HistInit ==
    /\ recognitionHistory = <<>>
    /\ selectedUser = 0
    /\ showHistoryDialog = FALSE
    /\ historyLoading = FALSE
    /\ histReqs = <<>>

\* a mounted component whose onMounted hook is at its first await
LifeInit ==
    /\ mounted = TRUE
    /\ mountPc = "await1"
    /\ ws = 0
    /\ socks = <<>>
    /\ wsTimers = <<>>
    /\ wsConnected = FALSE
    /\ animationId = 0
    /\ rafPending = {}
    /\ rafNext = 0
    /\ FacesPageInit
    /\ EventStoreInit
    /\ PushInit
    /\ LoginPageInit
    /\ SlideInit
    /\ RegInit
    /\ HistInit
    /\ deleteReqs = <<>>

InitZones ==
    /\ serverActive = [i \in FaceIds |-> FALSE]
    /\ page = "Zones"
    /\ lastOp = "init"
    /\ notice = "none"
    /\ ZonesPageInit
    /\ LifeInit
    /\ RenderInit
    /\ videoStreamUrl = ""
    /\ rect = ZonesRect

NextZones ==
    \/ \E off \in ZoneClickOffsets :
          Len(currentPoints) < MaxPoints /\ ZonesHandleCanvasClick(off)
    \/ HandleRightClick
    \/ StartDrawing
    \/ ToggleDrawMode
    \/ ClearDrawing
    \/ ClearCoordinates
    \/ ResetView
    \/ \E i \in 1..Len(zones) : EditZone(i)
    \/ CancelDialog
    \/ \E n \in Names : SetZoneName(n)
    \/ SubmitZoneForm
    \/ SubmitCallOk
    \/ SubmitCallFail
    \/ \E ok \in BOOLEAN, list \in ZoneLists : SubmitRefetchDone(ok, list)
    \/ RefreshZones
    \/ \E ok \in BOOLEAN, list \in ZoneLists : FetchZonesDone(ok, list)
    \/ ZonesTick

SpecZones == InitZones /\ [][NextZones]_vars

\* the create flow alone, with clicks at two different places
NextCreate ==
    \/ \E off \in ClickOffsets :
          Len(currentPoints) < MaxPoints /\ ZonesHandleCanvasClick(off)
    \/ HandleRightClick
    \/ StartDrawing
    \/ CancelDialog
    \/ \E n \in Names : SetZoneName(n)
    \/ SubmitZoneForm
    \/ SubmitCallOk
    \/ SubmitCallFail
    \/ \E ok \in BOOLEAN, list \in ZoneLists : SubmitRefetchDone(ok, list)

SpecCreate == InitZones /\ [][NextCreate]_vars

----------------------------------------------------------------------------
(* Camera state and the stream image, per page *)

\* native pixel sizes the stream can have
NaturalSizes == {<<640, 480>>, <<1280, 720>>}
\* answers of GET /api/video/camera/status
CameraStatuses == {"running", "stopped", "error"}

\* the <img> after cameraStatus / videoStreamUrl change: it keeps its load
\* state only if it stays mounted with the same src
ImgAfter(pg, cam, url, cam2, url2, image) ==
    IF ImgPresent(pg, cam, url) /\ ImgPresent(pg, cam2, url2) /\ url = url2
    THEN image ELSE NoImage

\* checkCameraStatus after its await (all three pages)
CheckCameraStatusDone(ok, st) ==
    /\ page \in {"Zones", "Live", "Face"}
    /\ IF ok
       THEN /\ cameraStatus' = st
            /\ videoStreamUrl' = IF st = "running" THEN "mjpeg" ELSE ""
            /\ notice' = "none"
            /\ lastOp' = "camera_status_ok"
       ELSE /\ UNCHANGED <<cameraStatus, videoStreamUrl>>
            /\ notice' = IF page = "Live" THEN "none" ELSE "error_camera_status"
            /\ lastOp' = "camera_status_failed"
    /\ img' = ImgAfter(page, cameraStatus, videoStreamUrl, cameraStatus',
                       videoStreamUrl', img)
    /\ UNCHANGED <<page, zoneVars, canvas, rect, videoError, drawn, drawErrors, resized, lastClick,
                   consoleLog, camVars>>
    /\ UNCHANGED offRender

\* startCamera after its await (live monitor, face recognition)
StartCameraDone(ok) ==
    /\ page \in {"Live", "Face"}
    /\ IF ok
       THEN /\ cameraStatus' = "running"
            /\ videoStreamUrl' = "mjpeg"
            /\ notice' = "success_camera_started"
            /\ lastOp' = "camera_start_ok"
       ELSE /\ UNCHANGED <<cameraStatus, videoStreamUrl>>
            /\ notice' = "error_camera_start"
            /\ lastOp' = "camera_start_failed"
    /\ img' = ImgAfter(page, cameraStatus, videoStreamUrl, cameraStatus',
                       videoStreamUrl', img)
    /\ UNCHANGED <<page, zoneVars, canvas, rect, videoError, drawn, drawErrors, resized, lastClick,
                   consoleLog, camVars>>
    /\ UNCHANGED offRender

\* the refs and reactive objects the script of the zones page declares
ZonesScriptRefs ==
    {"zones", "selectedZone", "loading", "submitting", "videoCanvas",
     "videoStream", "videoStreamUrl", "cameraStatus", "videoError",
     "drawMode", "currentPoints", "showZoneDialog", "editingZone",
     "zoneFormRef", "zoneForm"}

\* startCamera of the zones page, from the click on the button shown while
\* the camera is stopped to the end of the handler.  Its first statement
\* writes controlLoading.value: evaluating an identifier the script does not
\* declare throws a ReferenceError before the try block is entered.
ZonesStartCamera(ok) ==
    /\ page = "Zones"
    /\ cameraStatus = "stopped"
    /\ IF "controlLoading" \notin ZonesScriptRefs
       THEN /\ UNCHANGED <<cameraStatus, videoStreamUrl>>
            /\ notice' = "none"
            /\ lastOp' = "camera_start_threw"
       ELSE IF ok
       THEN /\ cameraStatus' = "running"
            /\ videoStreamUrl' = "mjpeg"
            /\ notice' = "success_camera_started"
            /\ lastOp' = "camera_start_ok"
       ELSE /\ UNCHANGED <<cameraStatus, videoStreamUrl>>
            /\ notice' = "error_camera_start"
            /\ lastOp' = "camera_start_failed"
    /\ img' = ImgAfter(page, cameraStatus, videoStreamUrl, cameraStatus',
                       videoStreamUrl', img)
    /\ UNCHANGED <<page, zoneVars, canvas, rect, videoError, drawn,
                   drawErrors, resized, lastClick, consoleLog, camVars>>
    /\ UNCHANGED offRender

\* stopCamera leaving the stream URL in place
StopCameraDone_KeepsUrl(ok) ==
    /\ page \in {"Live", "Face"}
    /\ IF ok
       THEN /\ cameraStatus' = "stopped"
            /\ UNCHANGED videoStreamUrl
            /\ notice' = "success_camera_stopped"
            /\ lastOp' = "camera_stop_ok"
       ELSE /\ UNCHANGED <<cameraStatus, videoStreamUrl>>
            /\ notice' = "error_camera_stop"
            /\ lastOp' = "camera_stop_failed"
    /\ img' = ImgAfter(page, cameraStatus, videoStreamUrl, cameraStatus',
                       videoStreamUrl', img)
    /\ UNCHANGED <<page, zoneVars, canvas, rect, videoError, drawn,
                   drawErrors, resized, lastClick, consoleLog, camVars>>
    /\ UNCHANGED offRender

\* stopCamera after its await (live monitor, face recognition)
StopCameraDone(ok) ==
    /\ page \in {"Live", "Face"}
    /\ IF ok
       THEN /\ cameraStatus' = "stopped"
            /\ videoStreamUrl' = ""
            /\ notice' = "success_camera_stopped"
            /\ lastOp' = "camera_stop_ok"
       ELSE /\ UNCHANGED <<cameraStatus, videoStreamUrl>>
            /\ notice' = "error_camera_stop"
            /\ lastOp' = "camera_stop_failed"
    /\ img' = ImgAfter(page, cameraStatus, videoStreamUrl, cameraStatus',
                       videoStreamUrl', img)
    /\ UNCHANGED <<page, zoneVars, canvas, rect, videoError, drawn, drawErrors, resized, lastClick,
                   consoleLog, camVars>>
    /\ UNCHANGED offRender

----------------------------------------------------------------------------
(* Live monitor: drawVideoFrame, click handler, stream error handler *)

\* the stream element is an <img>: it has no videoWidth / videoHeight
ImgVideoWidth(image) == 0
ImgVideoHeight(image) == 0

\* canvas.width = video.videoWidth || 640; canvas.height = video.videoHeight || 480
LiveCanvasAfterDraw(cv, image) ==
    [w |-> IF ImgVideoWidth(image) # 0 THEN ImgVideoWidth(image) ELSE 640,
     h |-> IF ImgVideoHeight(image) # 0 THEN ImgVideoHeight(image) ELSE 480]

\* drawVideoFrame without the naturalWidth test
LiveDraws_NoNaturalCheck(cam, url, image) ==
    /\ cam = "running" /\ url # ""
    /\ ImgPresent("Live", cam, url)
    /\ image.complete

\* whether drawVideoFrame gets past its early returns
LiveDraws(cam, url, image) ==
    /\ cam = "running" /\ url # ""
    /\ ImgPresent("Live", cam, url)
    /\ image.complete /\ image.nw # 0

\* drawOverlays drawing the danger zones before the face boxes
LiveLayers_ZonesFirst == <<"image", "zones", "faces">>

\* drawOverlays: face boxes, then danger zones
LiveLayers == <<"image", "faces", "zones">>

LiveDrawVideoFrame ==
    IF LiveDraws(cameraStatus, videoStreamUrl, img)
    THEN /\ canvas' = LiveCanvasAfterDraw(canvas, img)
         /\ drawn' = LiveLayers
         /\ resized' = CanvasAssigned("Live", canvas, img)
         /\ UNCHANGED drawErrors
    ELSE UNCHANGED <<canvas, drawn, drawErrors, resized>>

\* one turn of the live monitor's render loop (frameUpdate)
LiveTick ==
    /\ page = "Live"
    /\ LiveDrawVideoFrame
    /\ lastOp' = IF LiveDraws(cameraStatus, videoStreamUrl, img)
                 THEN "tick_drawn" ELSE "tick_skipped"
    /\ notice' = "none"
    /\ UNCHANGED <<page, zoneVars, rect, img, cameraStatus, videoStreamUrl,
                   videoError, lastClick, consoleLog, camVars>>
    /\ UNCHANGED offRender

\* handleCanvasClick of the live monitor: logs the on-screen offset
LiveHandleCanvasClick(off) ==
    /\ page = "Live"
    /\ lastClick' = off
    /\ consoleLog' = Pt(Whole(off[1]), Whole(off[2]))
    /\ lastOp' = "live_click"
    /\ notice' = "none"
    /\ UNCHANGED <<page, zoneVars, canvas, rect, img, cameraStatus,
                   videoStreamUrl, videoError, drawn, drawErrors, resized, camVars>>
    /\ UNCHANGED offRender

MaxStreamRetries == 3

----------------------------------------------------------------------------
(* Face recognition: drawVideoFrame *)

\* drawVideoFrame sizing the canvas like the other two pages do
FaceCanvasAfterDraw_Fixed(cv, image) == ZonesCanvas

\* the canvas is resized only when it differs from the image's natural size
FaceCanvasAfterDraw(cv, image) ==
    IF cv.w # image.nw \/ cv.h # image.nh
    THEN [w |-> IF image.nw # 0 THEN image.nw ELSE 640,
          h |-> IF image.nh # 0 THEN image.nh ELSE 480]
    ELSE cv

FaceDraws(cam, url, image) ==
    /\ ImgPresent("Face", cam, url)
    /\ image.complete /\ image.nw # 0

FaceLayers == <<"image", "faces">>

FaceDrawVideoFrame ==
    IF FaceDraws(cameraStatus, videoStreamUrl, img)
    THEN /\ canvas' = FaceCanvasAfterDraw(canvas, img)
         /\ drawn' = FaceLayers
         /\ videoLoaded' = TRUE
         /\ resized' = CanvasAssigned("Face", canvas, img)
         /\ UNCHANGED drawErrors
    ELSE UNCHANGED <<canvas, drawn, drawErrors, resized, videoLoaded>>

\* one turn of the face-recognition render loop (frameUpdate)
FaceTick ==
    /\ page = "Face"
    /\ IF cameraStatus = "running"
       THEN FaceDrawVideoFrame
       ELSE UNCHANGED <<canvas, drawn, drawErrors, resized, videoLoaded>>
    /\ lastOp' = IF cameraStatus = "running"
                    /\ FaceDraws(cameraStatus, videoStreamUrl, img)
                 THEN "tick_drawn" ELSE "tick_skipped"
    /\ notice' = "none"
    /\ UNCHANGED <<page, zoneVars, rect, img, cameraStatus, videoStreamUrl,
                   videoError, lastClick, consoleLog, videoErrorRetry,
                   streamTimers>>
    /\ UNCHANGED offRender

----------------------------------------------------------------------------
(* Stream image events *)

\* the image's load event; the zones and face-recognition pages bind their
\* draw function to it
ImgLoad(size) ==
    /\ page \in {"Zones", "Live", "Face"}
    /\ ImgPresent(page, cameraStatus, videoStreamUrl)
    /\ img' = [complete |-> TRUE, nw |-> size[1], nh |-> size[2]]
    /\ notice' = "none"
    /\ lastOp' = "img_load"
    /\ CASE page = "Zones" ->
              /\ canvas' = ZonesCanvasAfterDraw(canvas)
              /\ drawn' = ZonesDrawn(cameraStatus, videoError, videoStreamUrl, img')
              /\ resized' = CanvasAssigned("Zones", canvas, img')
              /\ UNCHANGED <<videoLoaded, drawErrors>>
         [] page = "Face" ->
              /\ canvas' = FaceCanvasAfterDraw(canvas, img')
              /\ drawn' = FaceLayers
              /\ videoLoaded' = TRUE
              /\ resized' = CanvasAssigned("Face", canvas, img')
              /\ UNCHANGED drawErrors
         [] OTHER -> UNCHANGED <<canvas, drawn, drawErrors, resized, videoLoaded>>
    /\ UNCHANGED <<page, zoneVars, rect, cameraStatus, videoStreamUrl,
                   videoError, lastClick, consoleLog, videoErrorRetry,
                   streamTimers>>
    /\ UNCHANGED offRender

\* the image's error event and each page's handleVideoError
ImgError ==
    /\ page \in {"Zones", "Live", "Face"}
    /\ ImgPresent(page, cameraStatus, videoStreamUrl)
    /\ img' = [complete |-> TRUE, nw |-> 0, nh |-> 0]
    /\ lastOp' = "img_error"
    /\ CASE page = "Zones" ->
              /\ videoError' = TRUE
              /\ notice' = "error_stream_failed"
              /\ UNCHANGED camVars
         [] page = "Face" ->
              /\ videoLoaded' = FALSE
              /\ notice' = "error_stream_failed"
              /\ UNCHANGED <<videoError, videoErrorRetry, streamTimers>>
         [] OTHER ->
              /\ IF videoErrorRetry < MaxStreamRetries
                 THEN /\ videoErrorRetry' = videoErrorRetry + 1
                      /\ streamTimers' = streamTimers + 1
                      /\ notice' = "none"
                 ELSE /\ notice' = "error_stream_failed"
                      /\ UNCHANGED <<videoErrorRetry, streamTimers>>
              /\ UNCHANGED <<videoError, videoLoaded>>
    /\ UNCHANGED <<page, zoneVars, canvas, rect, cameraStatus, videoStreamUrl,
                   drawn, drawErrors, resized, lastClick, consoleLog>>
    /\ UNCHANGED offRender
RefreshedUrl_Stamped(cam, url) ==
    IF cam = "running" THEN "mjpeg_retry" ELSE url

\* refreshStream: the URL is the constant MJPEG_API, without a timestamp
RefreshedUrl(cam, url) == IF cam = "running" THEN "mjpeg" ELSE url

\* a retry timer of the live monitor fires: refreshStream
StreamTimerFire ==
    /\ page = "Live"
    /\ streamTimers > 0
    /\ streamTimers' = streamTimers - 1
    /\ videoStreamUrl' = RefreshedUrl(cameraStatus, videoStreamUrl)
    /\ img' = ImgAfter(page, cameraStatus, videoStreamUrl, cameraStatus,
                       videoStreamUrl', img)
    /\ lastOp' = "refresh_stream"
    /\ notice' = "none"
    /\ UNCHANGED <<page, zoneVars, canvas, rect, cameraStatus, videoError,
                   drawn, drawErrors, resized, lastClick, consoleLog, videoLoaded, videoErrorRetry>>
    /\ UNCHANGED offRender

\* the window is resized: the canvas is displayed at another CSS size
Resize(rc) ==
    /\ rc # rect
    /\ rect' = rc
    /\ lastOp' = "resize"
    /\ notice' = "none"
    /\ UNCHANGED <<page, zoneVars, canvas, img, cameraStatus, videoStreamUrl,
                   videoError, drawn, drawErrors, resized, lastClick, consoleLog, camVars>>
    /\ UNCHANGED offRender

----------------------------------------------------------------------------
(* The three rendering pages: camera, stream image, ticks and clicks *)

MaxClickPoints == 1   \* longest point buffer explored while rendering

InitRender ==
    /\ serverActive = [i \in FaceIds |-> FALSE]
    /\ page \in {"Zones", "Live", "Face"}
    /\ lastOp = "init"
    /\ notice = "none"
    /\ ZonesPageInit
    /\ LifeInit
    /\ RenderInit
    /\ videoStreamUrl = IF page = "Face" THEN "video_stream" ELSE ""
    /\ rect \in RectSizes

NextRender ==
    \/ \E off \in ClickOffsets :
          Len(currentPoints) < MaxClickPoints /\ ZonesHandleCanvasClick(off)
    \/ ToggleDrawMode
    \/ ZonesTick
    \/ \E off \in ClickOffsets : LiveHandleCanvasClick(off)
    \/ LiveTick
    \/ FaceTick
    \/ \E ok \in BOOLEAN, st \in CameraStatuses : CheckCameraStatusDone(ok, st)
    \/ \E ok \in BOOLEAN : StartCameraDone(ok)
    \/ \E ok \in BOOLEAN : StopCameraDone(ok)
    \/ \E ok \in BOOLEAN : ZonesStartCamera(ok)
    \/ \E size \in NaturalSizes : ImgLoad(size)
    \/ ImgError
    \/ StreamTimerFire
    \/ \E rc \in RectSizes : Resize(rc)

SpecRender == InitRender /\ [][NextRender]_vars

----------------------------------------------------------------------------
(* Face management page: list and status switch *)

MaxToggles == 2       \* status requests in flight at once
MaxFaceFetches == 2   \* times the list is replaced by a fetch

\* GET /api/face/users: one row per registered face, as the backend has it
ServerRows == [i \in 1..Cardinality(FaceIds) |->
                 [id |-> i, is_active |-> serverActive[i]]]

\* fetchFaces after its await: faces.value = response.data.data || []
FetchFacesDone(ok) ==
    /\ page = "Faces"
    /\ faceGen < MaxFaceFetches
    /\ IF ok
       THEN /\ faces' = ServerRows
            /\ faceGen' = faceGen + 1
            /\ notice' = "none"
            /\ lastOp' = "fetch_faces_ok"
       ELSE /\ UNCHANGED <<faces, faceGen>>
            /\ notice' = "error_fetch_faces"
            /\ lastOp' = "fetch_faces_failed"
    /\ doneReq' = NoToggle
    /\ UNCHANGED <<page, serverActive, toggleReqs>>
    /\ UNCHANGED <<zoneVars, renderVars, camVars, lifeVars, eventVars,
                   pushVars, formVars>>

\* the user flips the switch of row i: v-model writes row.is_active, then
\* toggleUserStatus(row) sends the new value
ToggleUserStatus(i) ==
    /\ page = "Faces"
    /\ i \in DOMAIN faces
    /\ Len(toggleReqs) < MaxToggles
    /\ faces' = [faces EXCEPT ![i].is_active = ~@]
    /\ toggleReqs' = Append(toggleReqs,
                            [idx |-> i, id |-> faces[i].id,
                             sent |-> ~faces[i].is_active,
                             before |-> faces[i].is_active, gen |-> faceGen])
    /\ doneReq' = NoToggle
    /\ notice' = "none"
    /\ lastOp' = "toggle_sent"
    /\ UNCHANGED <<page, serverActive, faceGen>>
    /\ UNCHANGED <<zoneVars, renderVars, camVars, lifeVars, eventVars,
                   pushVars, formVars>>

\* the row object a request holds is still in faces only if the list has not
\* been replaced since
RowShown(req) == req.gen = faceGen

\* catch branch: user.is_active = !user.is_active
RolledBack(rows, req) ==
    IF RowShown(req) THEN [rows EXCEPT ![req.idx].is_active = ~@]
    ELSE rows

RemoveAt(seq, k) == [j \in 1..(Len(seq) - 1) |->
                        IF j < k THEN seq[j] ELSE seq[j + 1]]

\* toggleUserStatus after its await, for the k-th request in flight
ToggleDone(k, ok) ==
    /\ page = "Faces"
    /\ k \in DOMAIN toggleReqs
    /\ LET req == toggleReqs[k] IN
         /\ doneReq' = req
         /\ IF ok
            THEN /\ serverActive' = [serverActive EXCEPT ![req.id] = req.sent]
                 /\ notice' = "success_status_updated"
                 /\ lastOp' = "toggle_ok"
                 /\ UNCHANGED faces
            ELSE /\ faces' = RolledBack(faces, req)
                 /\ notice' = "error_status_update"
                 /\ lastOp' = "toggle_failed"
                 /\ UNCHANGED serverActive
    /\ toggleReqs' = RemoveAt(toggleReqs, k)
    /\ UNCHANGED <<page, faceGen>>
    /\ UNCHANGED <<zoneVars, renderVars, camVars, lifeVars, eventVars,
                   pushVars, formVars>>

InitFaces ==
    /\ page = "Faces"
    /\ lastOp = "init"
    /\ notice = "none"
    /\ serverActive \in [FaceIds -> BOOLEAN]
    /\ ZonesPageInit
    /\ LifeInit
    /\ RenderInit
    /\ videoStreamUrl = ""
    /\ rect = ZonesRect

NextFaces ==
    \/ \E ok \in BOOLEAN : FetchFacesDone(ok)
    \/ \E i \in DOMAIN faces : ToggleUserStatus(i)
    \/ \E k \in DOMAIN toggleReqs, ok \in BOOLEAN : ToggleDone(k, ok)

SpecFaces == InitFaces /\ [][NextFaces]_vars

----------------------------------------------------------------------------
(* Event store (stores/events.js) and the events page's mark-read buttons *)

MaxEvents == 1      \* longest events cache explored
MaxMarkReqs == 1    \* mark-read requests in flight at once
MaxUnread == 2      \* largest unread count explored

RecentCap == 50

EventIds == {1, 2}

Ev(id, read) == [id |-> id, is_read |-> read]

\* lists the backend answers with
EventLists ==
    { <<>>, <<Ev(1, FALSE)>>, <<Ev(1, TRUE), Ev(2, FALSE)>>,
      <<Ev(2, FALSE), Ev(1, FALSE)>> }

\* Array.prototype.find: index of the first entry with this id, 0 if none
FindIndex(list, id) ==
    IF \E i \in DOMAIN list : list[i].id = id
    THEN CHOOSE i \in DOMAIN list :
            /\ list[i].id = id
            /\ \A j \in 1..(i - 1) : list[j].id # id
    ELSE 0
MarkedRead_NotPatched(list, id) == list

\* const e = list.find(...); if (e) e.is_read = true
MarkedRead(list, id) ==
    IF FindIndex(list, id) # 0
    THEN [list EXCEPT ![FindIndex(list, id)].is_read = TRUE]
    ELSE list

\* list.forEach(e => e.is_read = true) skipping the recent-events cache
AllRead_EventsOnly(list, isRecent) ==
    IF isRecent THEN list
    ELSE [i \in DOMAIN list |-> [list[i] EXCEPT !.is_read = TRUE]]

\* list.forEach(e => e.is_read = true)
AllRead(list, isRecent) ==
    [i \in DOMAIN list |-> [list[i] EXCEPT !.is_read = TRUE]]

\* this.unreadCount-- without the > 0 test
Decremented_NoFloor(n) == n - 1

\* if (this.unreadCount > 0) this.unreadCount--
Decremented(n) == IF n > 0 THEN n - 1 ELSE n

\* addRealtimeEvent without its slice
Capped_NoSlice(list) == list

\* list.slice(0, 50) once the list is longer than 50
Capped(list) ==
    IF Len(list) > RecentCap THEN SubSeq(list, 1, RecentCap) ELSE list

\* the events page's fetchEvents after its await: it writes the store's
\* events itself (onMounted, refresh, search, paging)
FetchEventsDone(ok, list) ==
    /\ page = "Events"
    /\ events' = IF ok THEN list ELSE events
    /\ lastOp' = IF ok THEN "fetch_events_ok" ELSE "fetch_events_failed"
    /\ notice' = IF ok THEN "none" ELSE "error_fetch_events"
    /\ doneMark' = NoMark
    /\ UNCHANGED <<page, recentEvents, unreadCount, markReqs, storeThrew>>
    /\ UNCHANGED <<zoneVars, renderVars, camVars, lifeVars, faceVars,
                   pushVars, formVars>>

\* what fetchRecentEvents stores from its response
RecentFetched(ok, list, cnt) ==
    /\ recentEvents' = IF ok THEN list ELSE recentEvents
    /\ unreadCount' = IF ok THEN cnt ELSE unreadCount
    /\ storeThrew' = FALSE

\* fetchRecentEvents after its await (started by the App shell)
FetchRecentEventsDone(ok, list, cnt) ==
    /\ page = "Events"
    /\ RecentFetched(ok, list, cnt)
    /\ lastOp' = IF ok THEN "fetch_recent_ok" ELSE "fetch_recent_failed"
    /\ notice' = "none"
    /\ doneMark' = NoMark
    /\ UNCHANGED <<page, events, markReqs>>
    /\ UNCHANGED <<zoneVars, renderVars, camVars, lifeVars, faceVars,
                   pushVars, formVars>>

\* addRealtimeEvent pushing the event to the end of both caches
RealtimeEventAdded_Appended(ev) ==
    /\ recentEvents' = Capped(Append(recentEvents, ev))
    /\ events' = Append(events, ev)
    /\ unreadCount' = IF ~ev.is_read THEN unreadCount + 1 ELSE unreadCount
    /\ storeThrew' = FALSE

\* addRealtimeEvent(event): what the store action assigns
RealtimeEventAdded(ev) ==
    /\ recentEvents' = Capped(<<ev>> \o recentEvents)
    /\ events' = <<ev>> \o events
    /\ unreadCount' = IF ~ev.is_read THEN unreadCount + 1 ELSE unreadCount
    /\ storeThrew' = FALSE

\* addRealtimeEvent(event) while the events page is shown
AddRealtimeEvent(ev) ==
    /\ page = "Events"
    /\ Len(events) < MaxEvents /\ Len(recentEvents) < MaxEvents
    /\ unreadCount < MaxUnread
    /\ RealtimeEventAdded(ev)
    /\ lastOp' = "push_event"
    /\ notice' = "none"
    /\ doneMark' = NoMark
    /\ UNCHANGED <<page, markReqs>>
    /\ UNCHANGED <<zoneVars, renderVars, camVars, lifeVars, faceVars,
                   pushVars, formVars>>

\* markAsRead(row.id): the button is rendered for unread rows only
MarkAsRead(i) ==
    /\ page = "Events"
    /\ i \in DOMAIN events
    /\ ~events[i].is_read
    /\ Len(markReqs) < MaxMarkReqs
    /\ markReqs' = Append(markReqs, [kind |-> "one", id |-> events[i].id])
    /\ lastOp' = "mark_read_sent"
    /\ notice' = "none"
    /\ doneMark' = NoMark
    /\ UNCHANGED <<page, events, recentEvents, unreadCount, storeThrew>>
    /\ UNCHANGED <<zoneVars, renderVars, camVars, lifeVars, faceVars,
                   pushVars, formVars>>

\* markAllAsRead(): the button is disabled while unreadCount is 0
MarkAllAsRead ==
    /\ page = "Events"
    /\ unreadCount # 0
    /\ Len(markReqs) < MaxMarkReqs
    /\ markReqs' = Append(markReqs, [kind |-> "all", id |-> 0])
    /\ lastOp' = "mark_all_sent"
    /\ notice' = "none"
    /\ doneMark' = NoMark
    /\ UNCHANGED <<page, events, recentEvents, unreadCount, storeThrew>>
    /\ UNCHANGED <<zoneVars, renderVars, camVars, lifeVars, faceVars,
                   pushVars, formVars>>

\* markEventAsRead after its await, and the page's markAsRead around it
MarkEventAsReadDone(k, ok) ==
    /\ page = "Events"
    /\ k \in DOMAIN markReqs
    /\ markReqs[k].kind = "one"
    /\ doneMark' = markReqs[k]
    /\ markReqs' = RemoveAt(markReqs, k)
    /\ IF ok
       THEN /\ events' = MarkedRead(events, markReqs[k].id)
            /\ recentEvents' = MarkedRead(recentEvents, markReqs[k].id)
            /\ unreadCount' = Decremented(unreadCount)
            /\ storeThrew' = FALSE
       ELSE /\ UNCHANGED <<events, recentEvents, unreadCount>>
            /\ storeThrew' = TRUE
    /\ notice' = IF storeThrew' THEN "error_mark_read" ELSE "success_mark_read"
    /\ lastOp' = IF ok THEN "mark_read_ok" ELSE "mark_read_failed"
    /\ UNCHANGED page
    /\ UNCHANGED <<zoneVars, renderVars, camVars, lifeVars, faceVars,
                   pushVars, formVars>>

\* the store's markAllAsRead after its await, and the page's around it
MarkAllAsReadDone(k, ok) ==
    /\ page = "Events"
    /\ k \in DOMAIN markReqs
    /\ markReqs[k].kind = "all"
    /\ doneMark' = markReqs[k]
    /\ markReqs' = RemoveAt(markReqs, k)
    /\ IF ok
       THEN /\ events' = AllRead(events, FALSE)
            /\ recentEvents' = AllRead(recentEvents, TRUE)
            /\ unreadCount' = 0
            /\ storeThrew' = FALSE
       ELSE /\ UNCHANGED <<events, recentEvents, unreadCount>>
            /\ storeThrew' = TRUE
    /\ notice' = IF storeThrew' THEN "error_mark_all" ELSE "success_mark_all"
    /\ lastOp' = IF ok THEN "mark_all_ok" ELSE "mark_all_failed"
    /\ UNCHANGED page
    /\ UNCHANGED <<zoneVars, renderVars, camVars, lifeVars, faceVars,
                   pushVars, formVars>>

InitEvents ==
    /\ page = "Events"
    /\ lastOp = "init"
    /\ notice = "none"
    /\ serverActive = [i \in FaceIds |-> FALSE]
    /\ ZonesPageInit
    /\ LifeInit
    /\ RenderInit
    /\ videoStreamUrl = ""
    /\ rect = ZonesRect

NextEvents ==
    \/ \E ok \in BOOLEAN, list \in EventLists : FetchEventsDone(ok, list)
    \/ \E ok \in BOOLEAN, list \in EventLists, cnt \in 0..MaxUnread :
          FetchRecentEventsDone(ok, list, cnt)
    \/ \E id \in EventIds, read \in BOOLEAN : AddRealtimeEvent(Ev(id, read))
    \/ \E i \in DOMAIN events : MarkAsRead(i)
    \/ MarkAllAsRead
    \/ \E k \in DOMAIN markReqs, ok \in BOOLEAN : MarkEventAsReadDone(k, ok)
    \/ \E k \in DOMAIN markReqs, ok \in BOOLEAN : MarkAllAsReadDone(k, ok)

SpecEvents == InitEvents /\ [][NextEvents]_vars

----------------------------------------------------------------------------
(* Component lifecycle: async onMounted, WebSocket reconnect, render loop *)

MaxSockets == 3   \* sockets one component instance creates
MaxFrames == 3    \* requestAnimationFrame calls one instance makes

ReconnectDelay == 3000

HasSocket(pg) == pg \in {"App", "Live", "Face"}
HasLoop(pg) == pg \in {"Zones", "Live", "Face"}


\* ws = new WebSocket(wsUrl)
NewSocket ==
    /\ socks' = Append(socks, "connecting")
    /\ ws' = Len(socks) + 1

\* ws.onerror scheduling a reconnect of its own
OnErrorTimers_Reconnect(ts) == Append(ts, ReconnectDelay)

\* ws.onerror: logs (face recognition also clears wsConnected), no timer
OnErrorTimers(ts) == ts

\* ws.onclose giving up after the second socket
OnCloseTimers_Capped(ts) ==
    IF Len(socks) < 2 THEN Append(ts, ReconnectDelay) ELSE ts

\* ws.onclose: setTimeout(initWebSocket, 3000)
OnCloseTimers(ts) == Append(ts, ReconnectDelay)

\* animationId = requestAnimationFrame(frameUpdate), the callbacks in
\* `pending' still waiting
RequestFrame(pending) ==
    /\ rafNext' = rafNext + 1
    /\ animationId' = rafNext + 1
    /\ rafPending' = pending \cup {rafNext + 1}

\* the draw call of one frameUpdate; an unmounted page's template refs are
\* null and every draw function returns at once
DrawOnFrame ==
    IF ~mounted THEN UNCHANGED <<canvas, drawn, drawErrors, resized, videoLoaded>>
    ELSE CASE page = "Zones" -> ZonesDrawFrame /\ UNCHANGED videoLoaded
           [] page = "Live" -> LiveDrawVideoFrame /\ UNCHANGED videoLoaded
           [] page = "Face" ->
                IF cameraStatus = "running" THEN FaceDrawVideoFrame
                ELSE UNCHANGED <<canvas, drawn, drawErrors, resized, videoLoaded>>
           [] OTHER -> UNCHANGED <<canvas, drawn, drawErrors, resized, videoLoaded>>

\* response.data of GET /api/system/status
StatusResponses == { [overall_status |-> "healthy", video_service |-> "running"],
                     [overall_status |-> "degraded"] }
SystemStatusFetched_Kept(ok, st) ==
    /\ systemStatus' = IF ok THEN st ELSE systemStatus
    /\ systemError' = IF ok THEN "null" ELSE "message"

\* fetchSystemStatus: what the store action assigns
SystemStatusFetched(ok, st) ==
    /\ systemStatus' = IF ok THEN st
                       ELSE [systemStatus EXCEPT !.overall_status = "error"]
    /\ systemError' = IF ok THEN "null" ELSE "message"

\* App onMounted: await systemStore.fetchSystemStatus() returns
AppMountStatus(ok, st) ==
    /\ page = "App" /\ mountPc = "await1"
    /\ mountPc' = "await2"
    /\ SystemStatusFetched(ok, st)
    /\ lastOp' = "mount_step"
    /\ notice' = "none"
    /\ UNCHANGED <<page, zoneVars, renderVars, camVars, dangerZones, mounted,
                   ws, socks, wsTimers, wsConnected, animationId, rafPending,
                   rafNext>>
    /\ UNCHANGED <<faceVars, eventVars, detectedFaces, recognizedFaces,
                   strangers, dangerZoneViolations, realtimeAlerts, lastMsg, formVars>>

\* App onMounted: await eventStore.fetchRecentEvents() returns; initWebSocket()
AppMountEvents(ok, list, cnt) ==
    /\ page = "App" /\ mountPc = "await2"
    /\ mountPc' = "done"
    /\ RecentFetched(ok, list, cnt)
    /\ NewSocket
    /\ lastOp' = "mount_done"
    /\ notice' = "none"
    /\ UNCHANGED <<page, zoneVars, renderVars, camVars, dangerZones, mounted,
                   wsTimers, wsConnected, animationId, rafPending, rafNext>>
    /\ UNCHANGED <<faceVars, events, markReqs, doneMark, pushVars, formVars>>

\* Zones onMounted: await fetchZones() returns
ZonesMountFetched(ok, list) ==
    /\ page = "Zones" /\ mountPc = "await1"
    /\ mountPc' = "await2"
    /\ zones' = IF ok THEN DataField(Envelope(list)) ELSE zones
    /\ zoneFetches' = 0
    /\ notice' = IF ok THEN "none" ELSE "error_fetch_zones"
    /\ lastOp' = "mount_step"
    /\ UNCHANGED <<page, selectedZone, drawMode, currentPoints, showZoneDialog,
                   editingZone, zoneForm, submitting, submitPc, zoneReq,
                   renderVars, camVars, dangerZones, mounted, ws, socks,
                   wsTimers, wsConnected, animationId, rafPending, rafNext>>
    /\ UNCHANGED offLife

\* Zones onMounted: await checkCameraStatus() returns; a running camera arms
\* the videoError reset timer; frameUpdate()
ZonesMountStatus(ok, st) ==
    /\ page = "Zones" /\ mountPc = "await2"
    /\ mountPc' = "done"
    /\ IF ok
       THEN /\ cameraStatus' = st
            /\ videoStreamUrl' = IF st = "running" THEN "mjpeg" ELSE ""
            /\ notice' = "none"
       ELSE /\ UNCHANGED <<cameraStatus, videoStreamUrl>>
            /\ notice' = "error_camera_status"
    /\ img' = ImgAfter(page, cameraStatus, videoStreamUrl, cameraStatus',
                       videoStreamUrl', img)
    /\ streamTimers' = IF cameraStatus' = "running"
                       THEN streamTimers + 1 ELSE streamTimers
    /\ IF mounted
       THEN /\ canvas' = ZonesCanvasAfterDraw(canvas)
            /\ drawn' = ZonesDrawn(cameraStatus', videoError, videoStreamUrl',
                                   img')
            /\ resized' = CanvasAssigned("Zones", canvas, img')
            /\ UNCHANGED drawErrors
       ELSE UNCHANGED <<canvas, drawn, drawErrors, resized>>
    /\ RequestFrame(rafPending)
    /\ lastOp' = "mount_done"
    /\ UNCHANGED <<page, zoneVars, rect, videoError, lastClick, consoleLog,
                   videoLoaded, videoErrorRetry, dangerZones, mounted, ws,
                   socks, wsTimers, wsConnected>>
    /\ UNCHANGED offLife

\* the timer armed by the zones page's onMounted: videoError = false
ZonesErrorTimerFire ==
    /\ page = "Zones"
    /\ streamTimers > 0
    /\ streamTimers' = streamTimers - 1
    /\ videoError' = FALSE
    /\ lastOp' = "error_timer"
    /\ notice' = "none"
    /\ UNCHANGED <<page, zoneVars, canvas, rect, img, cameraStatus,
                   videoStreamUrl, drawn, drawErrors, resized, lastClick, consoleLog, videoLoaded,
                   videoErrorRetry, lifeVars>>
    /\ UNCHANGED offLife

\* LiveMonitor onMounted: await loadDangerZones() returns; initWebSocket();
\* checkCameraStatus() is started and not awaited; frameUpdate()
LiveMountLoaded(ok, list) ==
    /\ page = "Live" /\ mountPc = "await1"
    /\ mountPc' = "done"
    /\ dangerZones' = IF ok THEN ZonesField(Envelope(list)) ELSE dangerZones
    /\ NewSocket
    /\ DrawOnFrame
    /\ RequestFrame(rafPending)
    /\ lastOp' = "mount_done"
    /\ notice' = "none"
    /\ UNCHANGED <<page, zoneVars, rect, img, cameraStatus, videoStreamUrl,
                   videoError, lastClick, consoleLog, videoErrorRetry,
                   streamTimers, mounted, wsTimers, wsConnected>>
    /\ UNCHANGED offLife

\* FaceRecognition onMounted: await checkCameraStatus() returns
FaceMountStatus(ok, st) ==
    /\ page = "Face" /\ mountPc = "await1"
    /\ mountPc' = "await2"
    /\ IF ok
       THEN /\ cameraStatus' = st
            /\ videoStreamUrl' = IF st = "running" THEN "mjpeg" ELSE ""
            /\ notice' = "none"
       ELSE /\ UNCHANGED <<cameraStatus, videoStreamUrl>>
            /\ notice' = "error_camera_status"
    /\ img' = ImgAfter(page, cameraStatus, videoStreamUrl, cameraStatus',
                       videoStreamUrl', img)
    /\ lastOp' = "mount_step"
    /\ UNCHANGED <<page, zoneVars, canvas, rect, videoError, drawn, drawErrors, resized, lastClick,
                   consoleLog, camVars, dangerZones, mounted, ws, socks,
                   wsTimers, wsConnected, animationId, rafPending, rafNext>>
    /\ UNCHANGED offLife

\* FaceRecognition onMounted: await loadFaceStatistics() returns;
\* initWebSocket(); frameUpdate()
FaceMountStatistics ==
    /\ page = "Face" /\ mountPc = "await2"
    /\ mountPc' = "done"
    /\ NewSocket
    /\ DrawOnFrame
    /\ RequestFrame(rafPending)
    /\ lastOp' = "mount_done"
    /\ notice' = "none"
    /\ UNCHANGED <<page, zoneVars, rect, img, cameraStatus, videoStreamUrl,
                   videoError, lastClick, consoleLog, videoErrorRetry,
                   streamTimers, dangerZones, mounted, wsTimers, wsConnected>>
    /\ UNCHANGED offLife

\* the open event of socket s: onopen
SockOpen(s) ==
    /\ HasSocket(page)
    /\ socks[s] = "connecting"
    /\ socks' = [socks EXCEPT ![s] = "open"]
    /\ wsConnected' = IF page = "Face" THEN TRUE ELSE wsConnected
    /\ lastOp' = "ws_open"
    /\ notice' = "none"
    /\ UNCHANGED <<page, zoneVars, renderVars, camVars, dangerZones, mounted,
                   mountPc, ws, wsTimers, animationId, rafPending, rafNext>>
    /\ UNCHANGED offLife
SockClosed_KeepsFlag(s, failed) ==
    /\ HasSocket(page)
    /\ socks[s] \in {"connecting", "open", "closing"}
    /\ failed => socks[s] # "closing"
    /\ socks' = [socks EXCEPT ![s] = "closed"]
    /\ wsTimers' = OnCloseTimers(IF failed THEN OnErrorTimers(wsTimers)
                                 ELSE wsTimers)
    /\ lastOp' = IF failed THEN "ws_error_close" ELSE "ws_close"
    /\ notice' = "none"
    /\ UNCHANGED <<page, zoneVars, renderVars, camVars, dangerZones, mounted,
                   mountPc, ws, animationId, rafPending, rafNext, wsConnected>>
    /\ UNCHANGED offLife

\* socket s reaches CLOSED: when the connection failed the browser fires
\* error and then close, otherwise close alone
SockClosed(s, failed) ==
    /\ HasSocket(page)
    /\ socks[s] \in {"connecting", "open", "closing"}
    /\ failed => socks[s] # "closing"
    /\ socks' = [socks EXCEPT ![s] = "closed"]
    /\ wsTimers' = OnCloseTimers(IF failed THEN OnErrorTimers(wsTimers)
                                 ELSE wsTimers)
    /\ wsConnected' = IF page = "Face" THEN FALSE ELSE wsConnected
    /\ lastOp' = IF failed THEN "ws_error_close" ELSE "ws_close"
    /\ notice' = "none"
    /\ UNCHANGED <<page, zoneVars, renderVars, camVars, dangerZones, mounted,
                   mountPc, ws, animationId, rafPending, rafNext>>
    /\ UNCHANGED offLife

\* a reconnect timer fires: initWebSocket()
ReconnectTimerFire ==
    /\ HasSocket(page)
    /\ wsTimers # <<>>
    /\ Len(socks) < MaxSockets
    /\ wsTimers' = Tail(wsTimers)
    /\ NewSocket
    /\ lastOp' = "ws_reconnect"
    /\ notice' = "none"
    /\ UNCHANGED <<page, zoneVars, renderVars, camVars, dangerZones, mounted,
                   mountPc, wsConnected, animationId, rafPending, rafNext>>
    /\ UNCHANGED offLife

\* the browser runs pending frame callback id: frameUpdate
Frame(id) ==
    /\ HasLoop(page)
    /\ id \in rafPending
    /\ rafNext < MaxFrames
    /\ DrawOnFrame
    /\ RequestFrame(rafPending \ {id})
    /\ lastOp' = "frame"
    /\ notice' = "none"
    /\ UNCHANGED <<page, zoneVars, rect, img, cameraStatus, videoStreamUrl,
                   videoError, lastClick, consoleLog, videoErrorRetry,
                   streamTimers, dangerZones, mounted, mountPc, ws, socks,
                   wsTimers, wsConnected>>
    /\ UNCHANGED offLife

\* onUnmounted: if (ws) ws.close(); if (animationId) cancelAnimationFrame
Unmount ==
    /\ mounted
    /\ mounted' = FALSE
    /\ socks' = IF HasSocket(page) /\ ws # 0
                   /\ socks[ws] \in {"connecting", "open"}
                THEN [socks EXCEPT ![ws] = "closing"] ELSE socks
    /\ rafPending' = IF HasLoop(page) /\ animationId # 0
                     THEN rafPending \ {animationId} ELSE rafPending
    /\ lastOp' = "unmount"
    /\ notice' = "none"
    /\ UNCHANGED <<page, zoneVars, renderVars, camVars, dangerZones, mountPc,
                   ws, wsTimers, wsConnected, animationId, rafNext>>
    /\ UNCHANGED offLife

InitLife ==
    /\ serverActive = [i \in FaceIds |-> FALSE]
    /\ page \in {"App", "Zones", "Live", "Face"}
    /\ lastOp = "init"
    /\ notice = "none"
    /\ ZonesPageInit
    /\ LifeInit
    /\ RenderInit
    /\ videoStreamUrl = IF page = "Face" THEN "video_stream" ELSE ""
    /\ rect = ZonesRect

NextLife ==
    \/ \E ok \in BOOLEAN, st \in StatusResponses : AppMountStatus(ok, st)
    \/ \E ok \in BOOLEAN, list \in EventLists, cnt \in 0..MaxUnread :
          AppMountEvents(ok, list, cnt)
    \/ \E ok \in BOOLEAN, list \in ZoneLists : ZonesMountFetched(ok, list)
    \/ \E ok \in BOOLEAN, st \in CameraStatuses : ZonesMountStatus(ok, st)
    \/ ZonesErrorTimerFire
    \/ \E ok \in BOOLEAN, list \in ZoneLists : LiveMountLoaded(ok, list)
    \/ \E ok \in BOOLEAN, st \in CameraStatuses : FaceMountStatus(ok, st)
    \/ FaceMountStatistics
    \/ \E s \in DOMAIN socks : SockOpen(s)
    \/ \E s \in DOMAIN socks, failed \in BOOLEAN : SockClosed(s, failed)
    \/ ReconnectTimerFire
    \/ \E id \in rafPending : Frame(id)
    \/ Unmount

SpecLife == InitLife /\ [][NextLife]_vars

----------------------------------------------------------------------------
(* WebSocket pushes: the onmessage handlers of App, LiveMonitor and         *)
(* FaceRecognition.  A frame is {type, data}; hasFaces / hasViolations say  *)
(* whether data carries a faces / violations field.                         *)

MaxAlerts == 2     \* longest realtimeAlerts list explored
MaxPushed == 3     \* longest store cache the App shell's pushes build

AlertCap == 10

Face(name, stranger) == [name |-> name, is_stranger |-> stranger]

FaceLists == { <<>>, <<Face("Ann", FALSE)>>,
               <<Face("", TRUE), Face("Ann", FALSE)>> }

StatusPayloads == { [overall_status |-> "degraded"],
                    [video_service |-> "stopped"] }

Messages ==
    {Msg("face_detection", TRUE, fl, FALSE, <<>>, NoMsg.event, NoMsg.status) :
        fl \in FaceLists}
    \cup {Msg("face_detection", FALSE, <<>>, FALSE, <<>>, NoMsg.event,
              NoMsg.status)}
    \cup {Msg("zone_violation", FALSE, <<>>, hv, IF hv THEN <<"v1">> ELSE <<>>,
              NoMsg.event, NoMsg.status) : hv \in BOOLEAN}
    \cup {Msg(t, FALSE, <<>>, FALSE, <<>>, Ev(2, FALSE), NoMsg.status) :
              t \in {"event_alert", "realtime_alert"}}
    \cup {Msg("system_status", FALSE, <<>>, FALSE, <<>>, NoMsg.event, st) :
              st \in StatusPayloads}
    \cup {Msg("heartbeat", FALSE, <<>>, FALSE, <<>>, NoMsg.event, NoMsg.status)}

\* the types each component's onmessage has a branch for
HandledTypes(pg) ==
    CASE pg = "App" -> {"event_alert", "system_status"}
      [] pg = "Live" -> {"face_detection", "zone_violation", "realtime_alert",
                         "event_alert"}
      [] pg = "Face" -> {"face_detection", "event_alert"}
      [] OTHER -> {}

\* Array.prototype.filter
RECURSIVE Filter(_, _)
Filter(list, stranger) ==
    IF list = <<>> THEN <<>>
    ELSE IF Head(list).is_stranger = stranger
         THEN <<Head(list)>> \o Filter(Tail(list), stranger)
         ELSE Filter(Tail(list), stranger)

\* the new list being the message's faces put in front of the old ones
DetectedAfter_Merged(old, m) == (IF m.hasFaces THEN m.faces ELSE <<>>) \o old

\* detectedFaces.value = data.data.faces || []
DetectedAfter(old, m) == IF m.hasFaces THEN m.faces ELSE <<>>

\* updateSystemStatus replacing the cached object by the payload
Merged_Replaced(old, new) == new

\* {...this.systemStatus, ...newStatus}
Merged(old, new) ==
    [f \in (DOMAIN old) \cup (DOMAIN new) |->
        IF f \in DOMAIN new THEN new[f] ELSE old[f]]

\* realtimeAlerts.unshift(data.data), then slice(0, 10) when longer than 10
AlertsAfter(list, ev) ==
    IF Len(<<ev>> \o list) > AlertCap
    THEN SubSeq(<<ev>> \o list, 1, AlertCap) ELSE <<ev>> \o list
DrawAfterMessage_Cleared ==
    /\ canvas' = DefaultCanvas
    /\ drawn' = <<>>
    /\ UNCHANGED <<drawErrors, resized>>

\* nextTick(drawVideoFrame) at the end of the live monitor's handler
DrawAfterMessage ==
    IF mounted THEN LiveDrawVideoFrame ELSE UNCHANGED <<canvas, drawn, drawErrors, resized>>

\* LiveMonitor ws.onmessage on open socket s
LiveOnMessage(s, m) ==
    /\ page = "Live"
    /\ socks[s] = "open"
    /\ lastMsg' = m
    /\ notice' = "none"
    /\ CASE m.type = "face_detection" ->
              /\ detectedFaces' = DetectedAfter(detectedFaces, m)
              /\ IF m.hasFaces
                 THEN /\ recognizedFaces' = Filter(m.faces, FALSE)
                      /\ strangers' = Filter(m.faces, TRUE)
                      /\ DrawAfterMessage
                      /\ lastOp' = "ws_message"
                 ELSE \* undefined.filter(...) throws: the handler ends here
                      /\ UNCHANGED <<recognizedFaces, strangers, canvas, drawn, drawErrors, resized>>
                      /\ lastOp' = "ws_message_threw"
              /\ UNCHANGED <<dangerZoneViolations, realtimeAlerts>>
         [] m.type = "zone_violation" ->
              /\ dangerZoneViolations' =
                    IF m.hasViolations THEN m.violations ELSE <<>>
              /\ DrawAfterMessage
              /\ lastOp' = "ws_message"
              /\ UNCHANGED <<detectedFaces, recognizedFaces, strangers,
                             realtimeAlerts>>
         [] m.type \in {"realtime_alert", "event_alert"} ->
              /\ Len(realtimeAlerts) < MaxAlerts
              /\ realtimeAlerts' = AlertsAfter(realtimeAlerts, m.event)
              /\ DrawAfterMessage
              /\ lastOp' = "ws_message"
              /\ UNCHANGED <<detectedFaces, recognizedFaces, strangers,
                             dangerZoneViolations>>
         [] OTHER ->
              /\ DrawAfterMessage
              /\ lastOp' = "ws_message"
              /\ UNCHANGED <<detectedFaces, recognizedFaces, strangers,
                             dangerZoneViolations, realtimeAlerts>>
    /\ UNCHANGED <<page, zoneVars, rect, img, cameraStatus, videoStreamUrl,
                   videoError, lastClick, consoleLog, camVars, lifeVars,
                   faceVars, eventVars, systemStatus, systemError, formVars>>

\* FaceRecognition ws.onmessage on open socket s
FaceOnMessage(s, m) ==
    /\ page = "Face"
    /\ socks[s] = "open"
    /\ lastMsg' = m
    /\ notice' = "none"
    /\ lastOp' = "ws_message"
    /\ detectedFaces' = IF m.type = "face_detection"
                        THEN DetectedAfter(detectedFaces, m) ELSE detectedFaces
    /\ UNCHANGED <<page, zoneVars, renderVars, camVars, lifeVars, faceVars,
                   eventVars, recognizedFaces, strangers, dangerZoneViolations,
                   realtimeAlerts, systemStatus, systemError, formVars>>

\* App ws.onmessage on open socket s
AppOnMessage(s, m) ==
    /\ page = "App"
    /\ socks[s] = "open"
    /\ lastMsg' = m
    /\ notice' = "none"
    /\ lastOp' = "ws_message"
    /\ CASE m.type = "event_alert" ->
              /\ Len(events) < MaxPushed /\ Len(recentEvents) < MaxPushed
              /\ unreadCount < MaxUnread
              /\ RealtimeEventAdded(m.event)
              /\ UNCHANGED systemStatus
         [] m.type = "system_status" ->
              /\ systemStatus' = Merged(systemStatus, m.status)
              /\ UNCHANGED <<events, recentEvents, unreadCount, storeThrew>>
         [] OTHER ->
              UNCHANGED <<events, recentEvents, unreadCount, storeThrew,
                          systemStatus>>
    /\ UNCHANGED <<page, zoneVars, renderVars, camVars, lifeVars, faceVars,
                   markReqs, doneMark, detectedFaces, recognizedFaces,
                   strangers, dangerZoneViolations, realtimeAlerts,
                   systemError, formVars>>

InitPush ==
    /\ page \in {"App", "Live", "Face"}
    /\ lastOp = "init"
    /\ notice = "none"
    /\ serverActive = [i \in FaceIds |-> FALSE]
    /\ ZonesPageInit
    /\ LifeInit
    /\ RenderInit
    /\ videoStreamUrl = IF page = "Face" THEN "video_stream" ELSE ""
    /\ rect = ZonesRect

NextPush ==
    \/ \E ok \in BOOLEAN, st \in StatusResponses : AppMountStatus(ok, st)
    \/ \E ok \in BOOLEAN, list \in EventLists, cnt \in 0..MaxUnread :
          AppMountEvents(ok, list, cnt)
    \/ \E ok \in BOOLEAN, list \in ZoneLists : LiveMountLoaded(ok, list)
    \/ \E ok \in BOOLEAN, st \in CameraStatuses : FaceMountStatus(ok, st)
    \/ FaceMountStatistics
    \/ \E ok \in BOOLEAN, st \in CameraStatuses : CheckCameraStatusDone(ok, st)
    \/ \E size \in NaturalSizes : ImgLoad(size)
    \/ \E s \in DOMAIN socks : SockOpen(s)
    \/ \E s \in DOMAIN socks, failed \in BOOLEAN : SockClosed(s, failed)
    \/ ReconnectTimerFire
    \/ \E s \in DOMAIN socks, m \in Messages : LiveOnMessage(s, m)
    \/ \E s \in DOMAIN socks, m \in Messages : FaceOnMessage(s, m)
    \/ \E s \in DOMAIN socks, m \in Messages :
          /\ m.type = "event_alert" =>
                Len(events) < MaxEvents /\ Len(recentEvents) < MaxEvents
          /\ AppOnMessage(s, m)

SpecPush == InitPush /\ [][NextPush]_vars

----------------------------------------------------------------------------
(* Slide-to-verify control (components/SlideVerify.vue).  The login page    *)
(* shows one instance at a time, that of the active tab.                    *)

TrackWidth == 300
ThumbWidth == 40
EndTolerance == 5

\* clientX - startX of the pointer events of a drag
Deltas == {-20, 120, 254, 255, 300}

Min2(a, b) == IF a < b THEN a ELSE b
Max2(a, b) == IF a > b THEN a ELSE b

\* onSlide without the clamp to the track
NewLeft_Unclamped(deltaX) == deltaX

\* onSlide: Math.max(0, Math.min(deltaX, trackWidth - thumbWidth))
NewLeft(deltaX) == Max2(0, Min2(deltaX, TrackWidth - ThumbWidth))

\* endSlide accepting a release anywhere in the right half of the track
PastThreshold_Loose(left) == left >= (TrackWidth - ThumbWidth) \div 2

\* endSlide: thumbLeft >= trackWidth - thumbWidth - 5
PastThreshold(left) == left >= TrackWidth - ThumbWidth - EndTolerance

\* a SlideVerify instance created by the v-if of a tab
FreshSlide ==
    /\ thumbLeft' = 0
    /\ isDragging' = FALSE
    /\ isVerified' = FALSE

\* reset() of the displayed instance
SlideReset ==
    /\ isVerified' = FALSE
    /\ thumbLeft' = 0
    /\ UNCHANGED isDragging

\* what no handler of the login page touches
offLogin == <<zoneVars, renderVars, camVars, faceVars, eventVars, pushVars,
              regVars, histVars, deleteReqs, mountPc, ws, socks, wsTimers, wsConnected,
              animationId, rafPending, rafNext, dangerZones>>

\* mousedown / touchstart on the thumb
StartSlide ==
    /\ page = "Login" /\ mounted
    /\ ~isDragging
    /\ IF isVerified
       THEN /\ UNCHANGED isDragging
            /\ lastOp' = "slide_ignored"
       ELSE /\ isDragging' = TRUE
            /\ lastOp' = "slide_start"
    /\ notice' = "none"
    /\ UNCHANGED <<page, mounted, loginVars, thumbLeft, isVerified>>
    /\ UNCHANGED offLogin

\* mousemove / touchmove while the document listeners are attached
OnSlide(deltaX) ==
    /\ page = "Login" /\ mounted
    /\ isDragging
    /\ thumbLeft' = NewLeft(deltaX)
    /\ lastOp' = "slide_move"
    /\ notice' = "none"
    /\ UNCHANGED <<page, mounted, loginVars, isDragging, isVerified>>
    /\ UNCHANGED offLogin

\* mouseup / touchend: endSlide, and the parent's handler of what it emits
\* (handleLoginSlideSuccess, handleRegisterSlideSuccess, handleSlideFail)
EndSlide ==
    /\ page = "Login" /\ mounted
    /\ isDragging
    /\ isDragging' = FALSE
    /\ IF PastThreshold(thumbLeft)
       THEN /\ isVerified' = TRUE
            /\ thumbLeft' = TrackWidth - ThumbWidth
            /\ isLoginSlideVerified' =
                  IF activeTab = "login" THEN TRUE ELSE isLoginSlideVerified
            /\ isRegisterSlideVerified' =
                  IF activeTab = "register" THEN TRUE
                  ELSE isRegisterSlideVerified
            /\ notice' = "none"
            /\ lastOp' = "verify_success"
       ELSE /\ thumbLeft' = 0
            /\ notice' = "warning_complete_slider"
            /\ lastOp' = "verify_fail"
            /\ UNCHANGED <<isVerified, isLoginSlideVerified,
                           isRegisterSlideVerified>>
    /\ UNCHANGED <<page, mounted, activeTab, loginForm, registerForm,
                   registerInitial, loginLoading, registerLoading, authReqs,
                   adminToken>>
    /\ UNCHANGED offLogin

----------------------------------------------------------------------------
(* Login page: tabs, forms, handleLogin and handleRegister *)

Tabs == {"login", "register"}

LoginForms == { [username |-> "ab", password |-> "secret"],
                [username |-> "admin", password |-> "12345"],
                [username |-> "admin", password |-> "secret"] }

RegisterForms ==
    { [username |-> "admin", password |-> "secret", confirmPassword |-> ""],
      [username |-> "admin", password |-> "secret", confirmPassword |-> "secre"],
      [username |-> "admin", password |-> "secret", confirmPassword |-> "secret"] }

\* rules {required: true} and {min, max} of a text field
FieldPasses(v, min, max) == v # "" /\ Len(v) >= min /\ Len(v) <= max
LoginRulesPass_NameOnly(f) == FieldPasses(f.username, 3, 50)

\* loginFormRef.value.validate() resolves
LoginRulesPass(f) ==
    /\ FieldPasses(f.username, 3, 50)
    /\ FieldPasses(f.password, 6, 100)

\* registerFormRef.value.validate() resolves
RegisterRulesPass(f) ==
    /\ FieldPasses(f.username, 3, 50)
    /\ FieldPasses(f.password, 6, 100)
    /\ f.confirmPassword # "" /\ f.confirmPassword = f.password

\* the template refs of tab t (form and slider) are set only while the
\* component is mounted and the v-if of the tab holds
TabRefs(t) == mounted /\ activeTab = t

\* click on a tab header; the form and slider of the other tab are destroyed
\* and those of tab t created
SwitchTab(t) ==
    /\ page = "Login" /\ mounted
    /\ ~isDragging
    /\ activeTab' = t
    /\ IF t # activeTab
       THEN /\ FreshSlide
            /\ registerInitial' = IF t = "register" THEN registerForm
                                  ELSE registerInitial
       ELSE UNCHANGED <<slideVars, registerInitial>>
    /\ lastOp' = "switch_tab"
    /\ notice' = "none"
    /\ UNCHANGED <<page, mounted, loginForm, registerForm,
                   isLoginSlideVerified, isRegisterSlideVerified,
                   loginLoading, registerLoading, authReqs, adminToken>>
    /\ UNCHANGED offLogin

\* typing into the login form (v-model)
SetLoginForm(f) ==
    /\ page = "Login" /\ TabRefs("login")
    /\ ~isDragging
    /\ loginForm' = f
    /\ lastOp' = "input"
    /\ notice' = "none"
    /\ UNCHANGED <<page, mounted, activeTab, registerForm, registerInitial,
                   isLoginSlideVerified, isRegisterSlideVerified,
                   loginLoading, registerLoading, authReqs, adminToken,
                   slideVars>>
    /\ UNCHANGED offLogin

\* typing into the register form (v-model)
SetRegisterForm(f) ==
    /\ page = "Login" /\ TabRefs("register")
    /\ ~isDragging
    /\ registerForm' = f
    /\ lastOp' = "input"
    /\ notice' = "none"
    /\ UNCHANGED <<page, mounted, activeTab, loginForm, registerInitial,
                   isLoginSlideVerified, isRegisterSlideVerified,
                   loginLoading, registerLoading, authReqs, adminToken,
                   slideVars>>
    /\ UNCHANGED offLogin

\* click on the login button (:loading="loginLoading"
\* :disabled="!isLoginSlideVerified"): handleLogin up to its fetch
HandleLogin ==
    /\ page = "Login" /\ TabRefs("login")
    /\ ~isDragging
    /\ isLoginSlideVerified /\ ~loginLoading
    /\ IF ~isLoginSlideVerified
       THEN /\ notice' = "warning_slider_first"
            /\ lastOp' = "login_unverified"
            /\ UNCHANGED <<loginLoading, authReqs>>
       ELSE IF ~LoginRulesPass(loginForm)
       THEN /\ notice' = "none"
            /\ lastOp' = "login_invalid"
            /\ UNCHANGED <<loginLoading, authReqs>>
       ELSE /\ loginLoading' = TRUE
            /\ authReqs' = authReqs \cup
                  {[kind |-> "login", username |-> loginForm.username,
                    password |-> loginForm.password]}
            /\ notice' = "none"
            /\ lastOp' = "login_sent"
    /\ UNCHANGED <<page, mounted, activeTab, loginForm, registerForm,
                   registerInitial, isLoginSlideVerified,
                   isRegisterSlideVerified, registerLoading, adminToken,
                   slideVars>>
    /\ UNCHANGED offLogin

\* click on the register button: handleRegister up to its fetch
HandleRegister ==
    /\ page = "Login" /\ TabRefs("register")
    /\ ~isDragging
    /\ isRegisterSlideVerified /\ ~registerLoading
    /\ IF ~isRegisterSlideVerified
       THEN /\ notice' = "warning_slider_first"
            /\ lastOp' = "register_unverified"
            /\ UNCHANGED <<registerLoading, authReqs>>
       ELSE IF ~RegisterRulesPass(registerForm)
       THEN /\ notice' = "none"
            /\ lastOp' = "register_invalid"
            /\ UNCHANGED <<registerLoading, authReqs>>
       ELSE /\ registerLoading' = TRUE
            /\ authReqs' = authReqs \cup
                  {[kind |-> "register", username |-> registerForm.username,
                    password |-> registerForm.password]}
            /\ notice' = "none"
            /\ lastOp' = "register_sent"
    /\ UNCHANGED <<page, mounted, activeTab, loginForm, registerForm,
                   registerInitial, isLoginSlideVerified,
                   isRegisterSlideVerified, loginLoading, adminToken,
                   slideVars>>
    /\ UNCHANGED offLogin

\* what the backend answers to a request
Outcomes == {"ok", "refused", "network"}

\* handleLogin after its fetch, for the login request in flight.  On success
\* the token is stored and router.push('/live') leaves the page.  On refusal
\* or a network error the handler calls loginSlideRef.value.reset() before it
\* clears the flag: with the ref unset that call throws (in the try block,
\* and again in the catch block), so the flag keeps its value.
LoginDone(req, outcome) ==
    /\ page = "Login"
    /\ req \in authReqs /\ req.kind = "login"
    /\ authReqs' = authReqs \ {req}
    /\ loginLoading' = FALSE
    /\ IF outcome = "ok"
       THEN /\ adminToken' = "access_token"
            /\ mounted' = FALSE
            /\ notice' = "success_login"
            /\ lastOp' = "login_ok"
            /\ UNCHANGED <<isLoginSlideVerified, slideVars>>
       ELSE /\ IF TabRefs("login")
               THEN /\ SlideReset
                    /\ isLoginSlideVerified' = FALSE
                    /\ notice' = IF outcome = "refused" THEN "error_login"
                                 ELSE "error_network"
                    /\ lastOp' = "login_failed"
               ELSE /\ notice' = "error_network"
                    /\ lastOp' = "login_failed_threw"
                    /\ UNCHANGED <<isLoginSlideVerified, slideVars>>
            /\ UNCHANGED <<adminToken, mounted>>
    /\ UNCHANGED <<page, activeTab, loginForm, registerForm, registerInitial,
                   isRegisterSlideVerified, registerLoading>>
    /\ UNCHANGED offLogin

\* handleRegister after its fetch, for the register request in flight.  On
\* success it shows the login tab, then calls registerFormRef.value
\* .resetFields() and registerSlideRef.value.reset(); the refs are still set
\* if the register tab was shown when the response arrived.
RegisterDone(req, outcome) ==
    /\ page = "Login"
    /\ req \in authReqs /\ req.kind = "register"
    /\ authReqs' = authReqs \ {req}
    /\ registerLoading' = FALSE
    /\ IF outcome = "ok"
       THEN /\ activeTab' = "login"
            /\ IF TabRefs("register")
               THEN /\ registerForm' = registerInitial
                    /\ FreshSlide
                    /\ isRegisterSlideVerified' = FALSE
                    /\ notice' = "success_register"
                    /\ lastOp' = "register_ok"
               ELSE /\ notice' = "error_network"
                    /\ lastOp' = "register_ok_threw"
                    /\ UNCHANGED <<registerForm, isRegisterSlideVerified,
                                   slideVars>>
       ELSE /\ IF TabRefs("register")
               THEN /\ SlideReset
                    /\ isRegisterSlideVerified' = FALSE
                    /\ notice' = IF outcome = "refused" THEN "error_register"
                                 ELSE "error_network"
                    /\ lastOp' = "register_failed"
               ELSE /\ notice' = "error_network"
                    /\ lastOp' = "register_failed_threw"
                    /\ UNCHANGED <<isRegisterSlideVerified, slideVars>>
            /\ UNCHANGED <<activeTab, registerForm>>
    /\ UNCHANGED <<page, mounted, loginForm, registerInitial,
                   isLoginSlideVerified, loginLoading, adminToken>>
    /\ UNCHANGED offLogin

----------------------------------------------------------------------------
(* Face registration: the upload form of FaceManagement and the add dialog *)
(* of the faces page                                                        *)

RegNames == {"", "a", "Ann"}

\* responses of GET /api/face/list
FaceListResponses == {<<>>, <<"Ann">>}

\* what the handlers of the two registration forms never touch
offReg == <<zoneVars, renderVars, camVars, lifeVars, eventVars, pushVars,
            loginVars, slideVars, histVars, deleteReqs, serverActive,
            toggleReqs, doneReq>>

\* uploadRules: name required with 2..20 characters, file required
UploadRulesPass(f) == FieldPasses(f.name, 2, 20) /\ f.file # "null"

\* addRules: name required with 2..20 characters
AddRulesPass(f) == FieldPasses(f.name, 2, 20)

\* !addForm.image: null and '' are falsy
NoImageChosen(f) == f.image \in {"null", ""}

\* FaceManagement: typing the name (v-model)
SetUploadName(n) ==
    /\ page = "FaceManagement"
    /\ uploadForm' = [uploadForm EXCEPT !.name = n]
    /\ lastOp' = "input"
    /\ notice' = "none"
    /\ UNCHANGED <<page, uploading, faceList, addForm, showAddDialog,
                   addSubmitting, regPc, regReq, faces, faceGen>>
    /\ UNCHANGED offReg

\* FaceManagement: handleFileChange (chosen) and handleFileRemove (~chosen)
HandleFileChange(chosen) ==
    /\ page = "FaceManagement"
    /\ uploadForm' = [uploadForm EXCEPT
                        !.file = IF chosen THEN "raw" ELSE "null"]
    /\ lastOp' = "file"
    /\ notice' = "none"
    /\ UNCHANGED <<page, uploading, faceList, addForm, showAddDialog,
                   addSubmitting, regPc, regReq, faces, faceGen>>
    /\ UNCHANGED offReg

\* FaceManagement: submitUpload up to its axios.post
SubmitUpload ==
    /\ page = "FaceManagement"
    /\ ~uploading                        \* :loading="uploading"
    /\ IF ~UploadRulesPass(uploadForm)
       THEN /\ notice' = "error_upload_failed"
            /\ lastOp' = "upload_invalid"
            /\ UNCHANGED <<uploading, regPc, regReq>>
       ELSE IF uploadForm.file = "null"
       THEN /\ notice' = "error_choose_photo"
            /\ lastOp' = "upload_no_file"
            /\ UNCHANGED <<uploading, regPc, regReq>>
       ELSE /\ uploading' = TRUE
            /\ regPc' = "call"
            /\ regReq' = [name |-> uploadForm.name, image |-> uploadForm.file]
            /\ notice' = "none"
            /\ lastOp' = "upload_sent"
    /\ UNCHANGED <<page, uploadForm, faceList, addForm, showAddDialog,
                   addSubmitting, faces, faceGen>>
    /\ UNCHANGED offReg

\* FaceManagement: submitUpload after its axios.post; on success resetForm()
\* and loadFaceList() is started
UploadDone(outcome) ==
    /\ page = "FaceManagement"
    /\ regPc = "call"
    /\ regReq' = NoReg
    /\ IF outcome = "ok"
       THEN /\ uploadForm' = EmptyUploadForm
            /\ regPc' = "refetch"
            /\ notice' = "success_registered"
            /\ lastOp' = "upload_ok"
            /\ UNCHANGED uploading
       ELSE /\ uploading' = FALSE
            /\ regPc' = "idle"
            /\ notice' = IF outcome = "refused" THEN "error_register"
                         ELSE "error_upload_failed"
            /\ lastOp' = "upload_failed"
            /\ UNCHANGED uploadForm
    /\ UNCHANGED <<page, faceList, addForm, showAddDialog, addSubmitting,
                   faces, faceGen>>
    /\ UNCHANGED offReg

\* FaceManagement: the awaited loadFaceList() returns, then finally
UploadRefetchDone(ok, list) ==
    /\ page = "FaceManagement"
    /\ regPc = "refetch"
    /\ faceList' = IF ok THEN list ELSE faceList
    /\ notice' = IF ok THEN "none" ELSE "error_face_list"
    /\ uploading' = FALSE
    /\ regPc' = "idle"
    /\ lastOp' = "upload_refetched"
    /\ UNCHANGED <<page, uploadForm, addForm, showAddDialog, addSubmitting,
                   regReq, faces, faceGen>>
    /\ UNCHANGED offReg

\* faces page: the register button (show = TRUE) and the cancel button of
\* the dialog (show = FALSE)
SetShowAddDialog(show) ==
    /\ page = "Faces"
    /\ showAddDialog # show
    /\ showAddDialog' = show
    /\ lastOp' = "dialog"
    /\ notice' = "none"
    /\ UNCHANGED <<page, uploadForm, uploading, faceList, addForm,
                   addSubmitting, regPc, regReq, faces, faceGen>>
    /\ UNCHANGED offReg

\* faces page: typing the name (v-model)
SetAddName(n) ==
    /\ page = "Faces" /\ showAddDialog
    /\ addForm' = [addForm EXCEPT !.name = n]
    /\ lastOp' = "input"
    /\ notice' = "none"
    /\ UNCHANGED <<page, uploadForm, uploading, faceList, showAddDialog,
                   addSubmitting, regPc, regReq, faces, faceGen>>
    /\ UNCHANGED offReg

\* faces page: handleUploadSuccess(response) of the el-upload, which posts the
\* chosen picture on its own; addForm.image = response.data?.file_path || ''
HandleUploadSuccess(success, hasPath) ==
    /\ page = "Faces" /\ showAddDialog
    /\ IF success
       THEN /\ addForm' = [addForm EXCEPT
                             !.image = IF hasPath THEN "file_path" ELSE ""]
            /\ notice' = "success_image_uploaded"
       ELSE /\ notice' = "error_image_upload"
            /\ UNCHANGED addForm
    /\ lastOp' = "image_uploaded"
    /\ UNCHANGED <<page, uploadForm, uploading, faceList, showAddDialog,
                   addSubmitting, regPc, regReq, faces, faceGen>>
    /\ UNCHANGED offReg

\* faces page: submitAddForm up to its axios.post
SubmitAddForm ==
    /\ page = "Faces" /\ showAddDialog
    /\ ~addSubmitting                    \* :loading="submitting"
    /\ faceGen < MaxFaceFetches
    /\ IF ~AddRulesPass(addForm)
       THEN /\ notice' = "error_register_failed"
            /\ lastOp' = "add_invalid"
            /\ UNCHANGED <<addSubmitting, regPc, regReq>>
       ELSE IF NoImageChosen(addForm)
       THEN /\ notice' = "error_upload_photo"
            /\ lastOp' = "add_no_image"
            /\ UNCHANGED <<addSubmitting, regPc, regReq>>
       ELSE /\ addSubmitting' = TRUE
            /\ regPc' = "call"
            /\ regReq' = [name |-> addForm.name, image |-> addForm.image]
            /\ notice' = "none"
            /\ lastOp' = "add_sent"
    /\ UNCHANGED <<page, uploadForm, uploading, faceList, addForm,
                   showAddDialog, faces, faceGen>>
    /\ UNCHANGED offReg

\* faces page: submitAddForm after its axios.post; on success the dialog is
\* closed, resetAddForm() runs and fetchFaces() is started
AddDone(outcome) ==
    /\ page = "Faces"
    /\ regPc = "call"
    /\ regReq' = NoReg
    /\ IF outcome = "ok"
       THEN /\ showAddDialog' = FALSE
            /\ addForm' = EmptyAddForm
            /\ regPc' = "refetch"
            /\ notice' = "success_registered"
            /\ lastOp' = "add_ok"
            /\ UNCHANGED addSubmitting
       ELSE /\ addSubmitting' = FALSE
            /\ regPc' = "idle"
            /\ notice' = IF outcome = "refused" THEN "error_register"
                         ELSE "error_register_failed"
            /\ lastOp' = "add_failed"
            /\ UNCHANGED <<showAddDialog, addForm>>
    /\ UNCHANGED <<page, uploadForm, uploading, faceList, faces, faceGen>>
    /\ UNCHANGED offReg

\* faces page: the awaited fetchFaces() returns, then finally
AddRefetchDone(ok) ==
    /\ page = "Faces"
    /\ regPc = "refetch"
    /\ faces' = IF ok THEN ServerRows ELSE faces
    /\ faceGen' = IF ok THEN faceGen + 1 ELSE faceGen
    /\ notice' = IF ok THEN "none" ELSE "error_fetch_faces"
    /\ addSubmitting' = FALSE
    /\ regPc' = "idle"
    /\ lastOp' = "add_refetched"
    /\ UNCHANGED <<page, uploadForm, uploading, faceList, addForm,
                   showAddDialog, regReq>>
    /\ UNCHANGED offReg

----------------------------------------------------------------------------
(* The login page and the two registration forms *)

FormPages == {"Login", "FaceManagement", "Faces"}

InitForms ==
    /\ page \in FormPages
    /\ lastOp = "init"
    /\ notice = "none"
    /\ serverActive = [i \in FaceIds |-> FALSE]
    /\ ZonesPageInit
    /\ LifeInit
    /\ RenderInit
    /\ videoStreamUrl = ""
    /\ rect = ZonesRect

NextForms ==
    \/ StartSlide
    \/ \E d \in Deltas : OnSlide(d)
    \/ EndSlide
    \/ \E t \in Tabs : SwitchTab(t)
    \/ \E f \in LoginForms : SetLoginForm(f)
    \/ \E f \in RegisterForms : SetRegisterForm(f)
    \/ HandleLogin
    \/ HandleRegister
    \/ \E req \in authReqs, o \in Outcomes : LoginDone(req, o)
    \/ \E req \in authReqs, o \in Outcomes : RegisterDone(req, o)
    \/ \E n \in RegNames : SetUploadName(n)
    \/ \E c \in BOOLEAN : HandleFileChange(c)
    \/ SubmitUpload
    \/ \E o \in Outcomes : UploadDone(o)
    \/ \E ok \in BOOLEAN, l \in FaceListResponses : UploadRefetchDone(ok, l)
    \/ \E show \in BOOLEAN : SetShowAddDialog(show)
    \/ \E n \in RegNames : SetAddName(n)
    \/ \E s \in BOOLEAN, p \in BOOLEAN : HandleUploadSuccess(s, p)
    \/ \E o \in Outcomes : AddDone(o)
    \/ SubmitAddForm
    \/ \E ok \in BOOLEAN : AddRefetchDone(ok)

SpecForms == InitForms /\ [][NextForms]_vars

----------------------------------------------------------------------------
(* Faces page: recognition history dialog *)

MaxHistReqs == 2      \* history requests in flight at once

\* data.records of GET /api/face/{id}/recognition-history
RecordLists == {<<>>, <<"r1">>, <<"r1", "r2">>}

\* what the history handlers never touch
offHist == <<zoneVars, renderVars, camVars, lifeVars, faceVars, eventVars,
             pushVars, loginVars, slideVars, regVars, deleteReqs>>

\* the history button of row i: viewRecognitionHistory(row) up to its await
ViewRecognitionHistory(i) ==
    /\ page = "Faces"
    /\ i \in DOMAIN faces
    /\ ~showHistoryDialog /\ ~showAddDialog     \* a dialog covers the table
    /\ Len(histReqs) < MaxHistReqs
    /\ selectedUser' = faces[i].id
    /\ showHistoryDialog' = TRUE
    /\ historyLoading' = TRUE
    /\ histReqs' = Append(histReqs, faces[i].id)
    /\ lastOp' = "history_sent"
    /\ notice' = "none"
    /\ UNCHANGED <<page, recognitionHistory>>
    /\ UNCHANGED offHist

\* the close button of the history dialog
CloseHistoryDialog ==
    /\ page = "Faces"
    /\ showHistoryDialog
    /\ showHistoryDialog' = FALSE
    /\ lastOp' = "dialog"
    /\ notice' = "none"
    /\ UNCHANGED <<page, recognitionHistory, selectedUser, historyLoading,
                   histReqs>>
    /\ UNCHANGED offHist

\* viewRecognitionHistory after its await, for the k-th request in flight
HistoryDone(k, outcome, records) ==
    /\ page = "Faces"
    /\ k \in DOMAIN histReqs
    /\ histReqs' = RemoveAt(histReqs, k)
    /\ recognitionHistory' = IF outcome = "ok" THEN records ELSE <<>>
    /\ notice' = IF outcome = "ok" THEN "none" ELSE "error_history"
    /\ historyLoading' = FALSE
    /\ lastOp' = IF outcome = "ok" THEN "history_ok" ELSE "history_failed"
    /\ UNCHANGED <<page, selectedUser, showHistoryDialog>>
    /\ UNCHANGED offHist

----------------------------------------------------------------------------
(* REST reads of the App shell, the zones page and the faces page, with    *)
(* their failure branches                                                  *)

InitFailures ==
    /\ page \in {"App", "Zones", "Faces"}
    /\ lastOp = "init"
    /\ notice = "none"
    /\ serverActive \in [FaceIds -> BOOLEAN]
    /\ ZonesPageInit
    /\ LifeInit
    /\ RenderInit
    /\ videoStreamUrl = ""
    /\ rect = ZonesRect

NextFailures ==
    \/ \E ok \in BOOLEAN, st \in StatusResponses : AppMountStatus(ok, st)
    \/ \E ok \in BOOLEAN, list \in EventLists, cnt \in 0..MaxUnread :
          AppMountEvents(ok, list, cnt)
    \/ RefreshZones
    \/ \E ok \in BOOLEAN, list \in ZoneLists : FetchZonesDone(ok, list)
    \/ \E ok \in BOOLEAN : FetchFacesDone(ok)
    \/ \E i \in DOMAIN faces : ViewRecognitionHistory(i)
    \/ CloseHistoryDialog
    \/ \E k \in DOMAIN histReqs, o \in Outcomes, r \in RecordLists :
          HistoryDone(k, o, r)

SpecFailures == InitFailures /\ [][NextFailures]_vars

----------------------------------------------------------------------------
(* Requests and what issues them: the stream image, the zone list fetch    *)
(* and the WebSocket of the zones page and the live monitor                *)

InitRetry ==
    /\ page \in {"Zones", "Live"}
    /\ lastOp = "init"
    /\ notice = "none"
    /\ serverActive = [i \in FaceIds |-> FALSE]
    /\ ZonesPageInit
    /\ LifeInit
    /\ RenderInit
    /\ videoStreamUrl = ""
    /\ rect = ZonesRect

NextRetry ==
    \/ \E ok \in BOOLEAN, list \in ZoneLists : LiveMountLoaded(ok, list)
    \/ \E ok \in BOOLEAN, st \in CameraStatuses : CheckCameraStatusDone(ok, st)
    \/ \E ok \in BOOLEAN : StartCameraDone(ok)
    \/ \E ok \in BOOLEAN : StopCameraDone(ok)
    \/ \E size \in NaturalSizes : ImgLoad(size)
    \/ ImgError
    \/ StreamTimerFire
    \/ RefreshZones
    \/ \E ok \in BOOLEAN, list \in ZoneLists : FetchZonesDone(ok, list)
    \/ \E s \in DOMAIN socks : SockOpen(s)
    \/ \E s \in DOMAIN socks, failed \in BOOLEAN : SockClosed(s, failed)
    \/ ReconnectTimerFire

SpecRetry == InitRetry /\ [][NextRetry]_vars

----------------------------------------------------------------------------
(* Zones page: deleteZone *)

MaxDeletes == 1       \* delete requests in flight at once

\* the delete button of row i, confirmed in the message box: deleteZone up to
\* its axios.delete
DeleteZone(i) ==
    /\ PageUi
    /\ i \in DOMAIN zones
    /\ Len(deleteReqs) < MaxDeletes
    /\ deleteReqs' = Append(deleteReqs, [id |-> zones[i].id, pc |-> "call"])
    /\ lastOp' = "delete_sent"
    /\ notice' = "none"
    /\ UNCHANGED <<page, zoneVars, renderVars, camVars, lifeVars, faceVars,
                   eventVars, pushVars, loginVars, slideVars, regVars,
                   histVars>>

\* deleteZone after its axios.delete; on success fetchZones() is started
DeleteZoneDone(k, ok) ==
    /\ page = "Zones"
    /\ k \in DOMAIN deleteReqs
    /\ deleteReqs[k].pc = "call"
    /\ IF ok
       THEN /\ deleteReqs' = [deleteReqs EXCEPT ![k].pc = "refetch"]
            /\ notice' = "success_deleted"
            /\ lastOp' = "delete_ok"
       ELSE /\ deleteReqs' = RemoveAt(deleteReqs, k)
            /\ notice' = "error_delete_failed"
            /\ lastOp' = "delete_failed"
    /\ UNCHANGED <<page, zoneVars, renderVars, camVars, lifeVars, faceVars,
                   eventVars, pushVars, loginVars, slideVars, regVars,
                   histVars>>

\* the fetchZones awaited by deleteZone settles; then the selection is
\* dropped if it was the deleted zone
DeleteRefetchDone(k, ok, list) ==
    /\ page = "Zones"
    /\ k \in DOMAIN deleteReqs
    /\ deleteReqs[k].pc = "refetch"
    /\ deleteReqs' = RemoveAt(deleteReqs, k)
    /\ zones' = IF ok THEN DataField(Envelope(list)) ELSE zones
    /\ selectedZone' = IF selectedZone = deleteReqs[k].id THEN 0
                       ELSE selectedZone
    /\ notice' = IF ok THEN "none" ELSE "error_fetch_zones"
    /\ lastOp' = "delete_refetched"
    /\ UNCHANGED <<page, drawMode, currentPoints, showZoneDialog, editingZone,
                   zoneForm, submitting, submitPc, zoneReq, zoneFetches>>
    /\ UNCHANGED <<renderVars, camVars, lifeVars, faceVars, eventVars,
                   pushVars, loginVars, slideVars, regVars, histVars>>

----------------------------------------------------------------------------
(* Mutating calls of the zones, faces and events pages *)

InitMutations ==
    /\ page \in {"Zones", "Faces", "Events"}
    /\ lastOp = "init"
    /\ notice = "none"
    /\ serverActive = [i \in FaceIds |-> FALSE]
    /\ ZonesPageInit
    /\ LifeInit
    /\ RenderInit
    /\ videoStreamUrl = ""
    /\ rect = ZonesRect

NextMutations ==
    \/ \E ok \in BOOLEAN, list \in ZoneLists : FetchZonesDone(ok, list)
    \/ \E i \in DOMAIN zones : EditZone(i)
    \/ CancelDialog
    \/ \E n \in Names : SetZoneName(n)
    \/ SubmitZoneForm
    \/ SubmitCallOk
    \/ SubmitCallFail
    \/ \E ok \in BOOLEAN, list \in ZoneLists : SubmitRefetchDone(ok, list)
    \/ \E i \in DOMAIN zones : DeleteZone(i)
    \/ \E k \in DOMAIN deleteReqs, ok \in BOOLEAN : DeleteZoneDone(k, ok)
    \/ \E k \in DOMAIN deleteReqs, ok \in BOOLEAN, list \in ZoneLists :
          DeleteRefetchDone(k, ok, list)
    \/ \E ok \in BOOLEAN : FetchFacesDone(ok)
    \/ ~showAddDialog /\ ToggleUserStatus(1)       \* the dialog is modal
    \/ \E k \in DOMAIN toggleReqs, ok \in BOOLEAN : ToggleDone(k, ok)
    \/ \E show \in BOOLEAN : SetShowAddDialog(show)
    \/ SetAddName("Ann")
    \/ HandleUploadSuccess(TRUE, TRUE)
    \/ SubmitAddForm
    \/ \E o \in Outcomes : AddDone(o)
    \/ \E ok \in BOOLEAN : AddRefetchDone(ok)
    \/ \E ok \in BOOLEAN, list \in EventLists : FetchEventsDone(ok, list)
    \/ \E ok \in BOOLEAN, list \in EventLists, cnt \in 0..MaxUnread :
          FetchRecentEventsDone(ok, list, cnt)
    \/ \E i \in DOMAIN events : MarkAsRead(i)
    \/ MarkAllAsRead
    \/ \E k \in DOMAIN markReqs, ok \in BOOLEAN : MarkEventAsReadDone(k, ok)
    \/ \E k \in DOMAIN markReqs, ok \in BOOLEAN : MarkAllAsReadDone(k, ok)

SpecMutations == InitMutations /\ [][NextMutations]_vars


----------------------------------------------------------------------------
(* Reconnection under fair timers: the components that own a WebSocket,     *)
(* their mount hooks, the socket events and the reconnect timer.  A timer   *)
(* armed with setTimeout fires once its delay has passed, hence the weak    *)
(* fairness of ReconnectTimerFire.                                          *)

InitReconnect ==
    /\ serverActive = [i \in FaceIds |-> FALSE]
    /\ page \in {"App", "Live", "Face"}
    /\ lastOp = "init"
    /\ notice = "none"
    /\ ZonesPageInit
    /\ LifeInit
    /\ RenderInit
    /\ videoStreamUrl = IF page = "Face" THEN "video_stream" ELSE ""
    /\ rect = ZonesRect

NextReconnect ==
    \/ \E ok \in BOOLEAN, st \in StatusResponses : AppMountStatus(ok, st)
    \/ \E ok \in BOOLEAN : AppMountEvents(ok, <<>>, 0)
    \/ \E ok \in BOOLEAN : LiveMountLoaded(ok, <<>>)
    \/ \E ok \in BOOLEAN, st \in CameraStatuses : FaceMountStatus(ok, st)
    \/ FaceMountStatistics
    \/ \E s \in DOMAIN socks : SockOpen(s)
    \/ \E s \in DOMAIN socks, failed \in BOOLEAN : SockClosed(s, failed)
    \/ ReconnectTimerFire
    \/ Unmount

SpecReconnect ==
    InitReconnect /\ [][NextReconnect]_vars /\ WF_vars(ReconnectTimerFire)


----------------------------------------------------------------------------
(* Render loop with drawing exceptions.  Every draw function wraps its      *)
(* canvas calls in try/catch; the exception comes from the canvas API or    *)
(* from overlay data without the fields the drawing code reads, and `at'    *)
(* names the layer whose drawing raised it.                                 *)

\* the layers one complete draw of the page puts on the canvas
PageLayers(pg) ==
    CASE pg = "Zones" -> <<"image", "zones", "current">>
      [] pg = "Live" -> LiveLayers
      [] pg = "Face" -> FaceLayers
      [] OTHER -> <<>>

\* frameUpdate calls the draw function and the function gets into its try
\* block: camera running, image present, complete and of non-zero width
ReachesTry(pg) ==
    CASE pg = "Zones" ->
            /\ cameraStatus = "running" /\ ~videoError
            /\ ImgPresent("Zones", cameraStatus, videoStreamUrl)
            /\ img.complete /\ img.nw # 0
      [] pg = "Live" -> LiveDraws(cameraStatus, videoStreamUrl, img)
      [] pg = "Face" ->
            /\ cameraStatus = "running"
            /\ FaceDraws(cameraStatus, videoStreamUrl, img)
      [] OTHER -> FALSE

\* the layers already drawn when the call drawing layer `at' throws
DrawnBefore(layers, at) ==
    SubSeq(layers, 1, (CHOOSE k \in DOMAIN layers : layers[k] = at) - 1)

\* the draw function when drawing layer `at' throws: the catch block logs;
\* the zones page also writes a failure text over what was drawn so far
CaughtDraw(at) ==
    /\ canvas' = CASE page = "Zones" -> ZonesCanvasAfterDraw(canvas)
                   [] page = "Live" -> LiveCanvasAfterDraw(canvas, img)
                   [] OTHER -> FaceCanvasAfterDraw(canvas, img)
    /\ drawn' = IF page = "Zones"
                THEN Append(DrawnBefore(PageLayers(page), at),
                            "msg_draw_failed")
                ELSE DrawnBefore(PageLayers(page), at)
    /\ drawErrors' = drawErrors + 1
    /\ resized' = CanvasAssigned(page, canvas, img)
    /\ UNCHANGED videoLoaded

\* a frame callback whose exception escapes: nothing is scheduled after it
FrameThrows_Uncaught(id, at) ==
    /\ HasLoop(page) /\ mounted
    /\ id \in rafPending
    /\ rafNext < MaxFrames
    /\ ReachesTry(page)
    /\ at \in {PageLayers(page)[k] : k \in DOMAIN PageLayers(page)}
    /\ CaughtDraw(at)
    /\ rafPending' = rafPending \ {id}
    /\ lastOp' = "frame_threw"
    /\ notice' = "none"
    /\ UNCHANGED <<page, zoneVars, rect, img, cameraStatus, videoStreamUrl,
                   videoError, lastClick, consoleLog, videoErrorRetry,
                   streamTimers, dangerZones, mounted, mountPc, ws, socks,
                   wsTimers, wsConnected, animationId, rafNext>>
    /\ UNCHANGED offLife

\* the browser runs pending frame callback id and the draw throws at layer
\* `at': the draw function catches, frameUpdate requests the next frame
FrameThrows(id, at) ==
    /\ HasLoop(page) /\ mounted
    /\ id \in rafPending
    /\ rafNext < MaxFrames
    /\ ReachesTry(page)
    /\ at \in {PageLayers(page)[k] : k \in DOMAIN PageLayers(page)}
    /\ CaughtDraw(at)
    /\ RequestFrame(rafPending \ {id})
    /\ lastOp' = "frame_threw"
    /\ notice' = "none"
    /\ UNCHANGED <<page, zoneVars, rect, img, cameraStatus, videoStreamUrl,
                   videoError, lastClick, consoleLog, videoErrorRetry,
                   streamTimers, dangerZones, mounted, mountPc, ws, socks,
                   wsTimers, wsConnected>>
    /\ UNCHANGED offLife

InitLoop ==
    /\ serverActive = [i \in FaceIds |-> FALSE]
    /\ page \in {"Zones", "Live", "Face"}
    /\ lastOp = "init"
    /\ notice = "none"
    /\ ZonesPageInit
    /\ LifeInit
    /\ RenderInit
    /\ videoStreamUrl = IF page = "Face" THEN "video_stream" ELSE ""
    /\ rect = ZonesRect

NextLoop ==
    \/ \E ok \in BOOLEAN : ZonesMountFetched(ok, <<>>)
    \/ \E ok \in BOOLEAN, st \in CameraStatuses : ZonesMountStatus(ok, st)
    \/ ZonesErrorTimerFire
    \/ \E ok \in BOOLEAN : LiveMountLoaded(ok, <<>>)
    \/ \E ok \in BOOLEAN, st \in CameraStatuses : FaceMountStatus(ok, st)
    \/ FaceMountStatistics
    \/ \E ok \in BOOLEAN, st \in CameraStatuses :
          mountPc = "done" /\ CheckCameraStatusDone(ok, st)
    \/ \E size \in NaturalSizes : ImgLoad(size)
    \/ ImgError
    \/ \E id \in rafPending : Frame(id)
    \/ \E id \in rafPending, at \in {"image", "zones", "faces", "current"} :
          FrameThrows(id, at)
    \/ Unmount

SpecLoop == InitLoop /\ [][NextLoop]_vars


----------------------------------------------------------------------------
(* The App shell and its two stores: the mount hook's fetches, then the    *)
(* event_alert and system_status frames of the socket.                     *)

\* the frames the App shell has a branch for
StoreMessages ==
    {Msg("event_alert", FALSE, <<>>, FALSE, <<>>, Ev(id, read), NoMsg.status) :
        id \in EventIds, read \in BOOLEAN}
    \cup {Msg("system_status", FALSE, <<>>, FALSE, <<>>, NoMsg.event, st) :
              st \in StatusPayloads \cup StatusResponses}

InitStore ==
    /\ page = "App"
    /\ lastOp = "init"
    /\ notice = "none"
    /\ serverActive = [i \in FaceIds |-> FALSE]
    /\ ZonesPageInit
    /\ LifeInit
    /\ RenderInit
    /\ videoStreamUrl = ""
    /\ rect = ZonesRect

NextStore ==
    \/ \E ok \in BOOLEAN, st \in StatusResponses : AppMountStatus(ok, st)
    \/ \E ok \in BOOLEAN, list \in EventLists, cnt \in 0..MaxUnread :
          AppMountEvents(ok, list, cnt)
    \/ \E s \in DOMAIN socks : SockOpen(s)
    \/ \E s \in DOMAIN socks, m \in StoreMessages : AppOnMessage(s, m)

SpecStore == InitStore /\ [][NextStore]_vars


----------------------------------------------------------------------------
(* A long run of pushed events: the two caches of the events store around  *)
(* the cap of the recent-events cache.                                     *)

MaxBurst == 4      \* events pushed beyond the cap that are explored

\* both caches after n unread events were pushed into the empty store, the
\* k-th pushed event carrying id k
PushedHistory(n) == [i \in 1..n |-> Ev(n - i + 1, FALSE)]

\* App ws.onmessage on open socket s for the next event_alert frame
BurstOnMessage(s, read) ==
    /\ page = "App"
    /\ socks[s] = "open"
    /\ Len(events) < RecentCap + MaxBurst
    /\ lastMsg' = Msg("event_alert", FALSE, <<>>, FALSE, <<>>,
                      Ev(Len(events) + 1, read), NoMsg.status)
    /\ RealtimeEventAdded(lastMsg'.event)
    /\ notice' = "none"
    /\ lastOp' = "ws_message"
    /\ UNCHANGED <<page, zoneVars, renderVars, camVars, lifeVars, faceVars,
                   markReqs, doneMark, detectedFaces, recognizedFaces,
                   strangers, dangerZoneViolations, realtimeAlerts,
                   systemStatus, systemError, formVars>>

\* the App shell with its mount hook finished, its socket open and between
\* RecentCap - 3 and RecentCap events pushed so far
InitBurst ==
    /\ page = "App"
    /\ lastOp = "init"
    /\ notice = "none"
    /\ serverActive = [i \in FaceIds |-> FALSE]
    /\ ZonesPageInit
    /\ RenderInit
    /\ videoStreamUrl = ""
    /\ rect = ZonesRect
    /\ mounted = TRUE
    /\ mountPc = "done"
    /\ ws = 1
    /\ socks = <<"open">>
    /\ wsTimers = <<>>
    /\ wsConnected = FALSE
    /\ animationId = 0
    /\ rafPending = {}
    /\ rafNext = 0
    /\ FacesPageInit
    /\ \E n \in (RecentCap - 3)..RecentCap :
          /\ events = PushedHistory(n)
          /\ recentEvents = PushedHistory(n)
          /\ unreadCount = n
    /\ markReqs = <<>>
    /\ storeThrew = FALSE
    /\ doneMark = NoMark
    /\ PushInit
    /\ LoginPageInit
    /\ SlideInit
    /\ RegInit
    /\ HistInit
    /\ deleteReqs = <<>>

NextBurst ==
    \E s \in DOMAIN socks, read \in BOOLEAN : BurstOnMessage(s, read)

SpecBurst == InitBurst /\ [][NextBurst]_vars

----------------------------------------------------------------------------
(* Properties of the zones page *)

SubmitOps == {"submit_invalid", "submit_too_few", "submit_sent"}
SubmitErrors == {"error_need_3_vertices", "error_create_failed",
                 "error_update_failed"}

\* C1: submitZoneForm issues a create or update call only when the form
\* holds at least 3 points (and the payload then carries them); a submission
\* with fewer than 3 points shows an error message and issues no network
\* call, whatever draw, finish, edit and clear actions preceded it.
C1_SubmitNeedsThreePoints ==
    [][ /\ (zoneReq' # zoneReq /\ zoneReq'.kind # "none")
              => /\ lastOp' = "submit_sent"
                 /\ Len(zoneForm.coordinates) >= 3
                 /\ zoneReq'.data.coordinates = zoneForm.coordinates
        /\ (lastOp' \in SubmitOps /\ Len(zoneForm.coordinates) < 3)
              => /\ notice' \in SubmitErrors
                 /\ zoneReq' = zoneReq
                 /\ zoneFetches' = zoneFetches
                 /\ submitPc' = submitPc
                 /\ ~submitting' ]_vars

\* a fresh drawing was finished, its coordinates cleared in the dialog, and
\* the submission then rejected for the missing vertices
C1_Witness ==
    /\ lastOp = "submit_too_few"
    /\ editingZone = 0
    /\ zoneForm.coordinates = <<>>
    /\ zoneReq.kind = "none"

FinishOps == {"finish_rejected", "finish_accepted"}

\* C10: a right-click with fewer than 3 buffered points shows the warning
\* and leaves drawMode, the point buffer, the form coordinates and the
\* dialog flag unchanged; with at least 3 points in draw mode it copies the
\* buffer into the form, opens the dialog and leaves draw mode.
C10_FinishGesture ==
    [][ /\ (lastOp' \in FinishOps /\ Len(currentPoints) < 3)
              => /\ notice' = "warning_need_3_points"
                 /\ UNCHANGED <<drawMode, currentPoints, zoneForm, showZoneDialog>>
        /\ (lastOp' \in FinishOps /\ Len(currentPoints) >= 3 /\ drawMode)
              => /\ zoneForm'.coordinates = currentPoints
                 /\ currentPoints' = currentPoints
                 /\ showZoneDialog'
                 /\ ~drawMode' ]_vars

\* three points were drawn and the gesture accepted
C10_Witness ==
    /\ lastOp = "finish_accepted"
    /\ Len(currentPoints) = 3
    /\ zoneForm.coordinates = currentPoints
    /\ showZoneDialog /\ ~drawMode

----------------------------------------------------------------------------
(* Properties of the renderers *)

\* the point (x*W/w, y*H/h) for offset off, backing store cv, CSS size rc
RescaledPoint(off, cv, rc) ==
    Pt(Frac(off[1] * cv.w, rc.w), Frac(off[2] * cv.h, rc.h))

DrewLoadedImage ==
    /\ ImgPresent(page, cameraStatus, videoStreamUrl)
    /\ img.complete /\ img.nw # 0
    /\ CASE page = "Zones" -> lastOp \in {"tick", "img_load"}
         [] page = "Live" -> lastOp = "tick_drawn"
         [] page = "Face" -> lastOp \in {"tick_drawn", "img_load"}
         [] OTHER -> FALSE

----------------------------------------------------------------------------
(* Properties of the component lifecycle *)

\* sockets of the component that have not reached CLOSED
Unclosed == {s \in DOMAIN socks : socks[s] # "closed"}
\* sockets that are open or connecting
OpenOrConnecting == {s \in DOMAIN socks : socks[s] \in {"connecting", "open"}}
\* some socket reaches CLOSED in this step
SomeSocketCloses ==
    \E s \in DOMAIN socks : socks[s] # "closed" /\ socks'[s] = "closed"

\* C2: in App, LiveMonitor and FaceRecognition every close event (with or
\* without a preceding error event) arms exactly one reconnect timer with the
\* 3000 ms delay, no other step arms one, and a pending timer and an unclosed
\* socket never coexist: at most one socket of the component is open or
\* connecting.
C2_OneReconnectPerClose ==
    /\ [](/\ Cardinality(Unclosed) + Len(wsTimers) <= 1
          /\ Cardinality(OpenOrConnecting) <= 1
          /\ \A i \in DOMAIN wsTimers : wsTimers[i] = ReconnectDelay)
    /\ [][IF SomeSocketCloses
          THEN wsTimers' = Append(wsTimers, ReconnectDelay)
          ELSE Len(wsTimers') <= Len(wsTimers)]_vars

\* two sockets failed in turn, each was replaced after its one timer, and
\* the third is open
C2_Witness ==
    /\ HasSocket(page)
    /\ Len(socks) = 3
    /\ socks[1] = "closed" /\ socks[2] = "closed" /\ socks[3] = "open"
    /\ wsTimers = <<>>
    /\ lastOp = "ws_open"

\* C3: once a socket-owning component is unmounted, none of its sockets is
\* open or connecting (its socket was closed and none is created again),
\* whatever point of the mount sequence the unmount happened at.
C3_NoSocketAfterTeardown == ~mounted => OpenOrConnecting = {}

\* C4: once a page with a render loop is unmounted no frame callback is left
\* to run, also when the unmount came while onMounted was still awaiting.
C4_NoFrameAfterTeardown == ~mounted => rafPending = {}

----------------------------------------------------------------------------
(* Properties of the face management page *)

\* the flag the table shows for face id
DisplayedActive(id) ==
    LET i == CHOOSE j \in DOMAIN faces : faces[j].id = id IN faces[i].is_active

\* C5: when a status-toggle request fails, the failure notification is shown
\* and the face's displayed active flag is the value it had immediately
\* before that toggle.
C5_FailedToggleReverts ==
    lastOp = "toggle_failed" =>
        /\ notice = "error_status_update"
        /\ DisplayedActive(doneReq.id) = doneReq.before

----------------------------------------------------------------------------
(* Properties of the event store *)

\* list after the first entry with this id, if any, is flagged read and
\* nothing else is touched
FirstMatchRead(before, after, id) ==
    /\ Len(after) = Len(before)
    /\ \A i \in DOMAIN before :
          after[i] = IF before[i].id = id
                        /\ \A j \in 1..(i - 1) : before[j].id # id
                     THEN Ev(id, TRUE) ELSE before[i]

\* C6: unreadCount is never negative; a successful markEventAsRead lowers it
\* by exactly 1 unless it is already 0, and flags the matching entry of
\* events and of recentEvents as read; a failed one changes neither the count
\* nor any flag and rethrows, so the page reports the failure.
C6_MarkOneRead ==
    /\ [](unreadCount >= 0)
    /\ [][/\ lastOp' = "mark_read_ok" =>
               /\ unreadCount' = IF unreadCount = 0 THEN 0 ELSE unreadCount - 1
               /\ FirstMatchRead(events, events', doneMark'.id)
               /\ FirstMatchRead(recentEvents, recentEvents', doneMark'.id)
               /\ ~storeThrew'
          /\ lastOp' = "mark_read_failed" =>
               /\ UNCHANGED <<unreadCount, events, recentEvents>>
               /\ storeThrew'
               /\ notice' = "error_mark_read"]_vars

\* a mark-read request for event 2 succeeded with two events unread: the
\* count went from 2 to 1 and event 2 is read in both caches, event 1 is not
C6_Witness ==
    /\ lastOp = "mark_read_ok"
    /\ doneMark.id = 2
    /\ unreadCount = 1
    /\ events = <<Ev(2, TRUE), Ev(1, FALSE)>>
    /\ recentEvents = <<Ev(2, TRUE), Ev(1, FALSE)>>

\* C7: a successful markAllAsRead sets unreadCount to 0 and is_read on every
\* entry of events and of recentEvents, keeping the entries otherwise; a
\* failed one changes neither the count nor any entry.
C7_MarkAllRead ==
    [][/\ lastOp' = "mark_all_ok" =>
            /\ unreadCount' = 0
            /\ Len(events') = Len(events)
            /\ Len(recentEvents') = Len(recentEvents)
            /\ \A i \in DOMAIN events : events'[i] = Ev(events[i].id, TRUE)
            /\ \A i \in DOMAIN recentEvents :
                  recentEvents'[i] = Ev(recentEvents[i].id, TRUE)
       /\ lastOp' = "mark_all_failed" =>
            UNCHANGED <<unreadCount, events, recentEvents>>]_vars

\* mark-all succeeded while both caches held an unread entry
C7_Witness ==
    /\ lastOp = "mark_all_ok"
    /\ unreadCount = 0
    /\ events = <<Ev(1, TRUE), Ev(2, TRUE)>>
    /\ recentEvents = <<Ev(2, TRUE), Ev(1, TRUE)>>


----------------------------------------------------------------------------
(* Properties of the zones page: edit flow and submission *)

\* C11: editZone seeds the form coordinates and the point buffer with the
\* selected zone's stored points, records it as the editing target and opens
\* the dialog; a submission that issues a call issues PUT /api/zone/{id} for
\* the editing target if one is set and POST /api/zone if none is.
C11_EditSeedsAndSubmitUpdates ==
    [][ /\ lastOp' = "edit_zone"
              => \E i \in DOMAIN zones :
                    /\ editingZone' = zones[i].id
                    /\ zoneForm'.coordinates = zones[i].coordinates
                    /\ currentPoints' = zones[i].coordinates
                    /\ showZoneDialog'
        /\ lastOp' = "submit_sent"
              => /\ (zoneReq'.kind = "put") <=> (editingZone # 0)
                 /\ (zoneReq'.kind = "post") <=> (editingZone = 0)
                 /\ zoneReq'.id = editingZone ]_vars

\* the stored triangle was selected for edit and submitted as an update
C11_Witness ==
    /\ lastOp = "submit_sent"
    /\ editingZone = 1
    /\ zoneReq.kind = "put" /\ zoneReq.id = 1
    /\ zoneReq.data.name = "Yard"
    /\ Len(zoneReq.data.coordinates) = 3


\* steps that cancel or clear: the dialog's cancel button, leaving draw mode
\* with the toggle, reset view, clear drawing, clear coordinates
CancelOrClear ==
    \/ lastOp' \in {"cancel_dialog", "reset_view", "clear_drawing",
                    "clear_coordinates"}
    \/ lastOp' = "toggle_draw_mode" /\ drawMode

\* C12: every cancel or clear step empties the point buffer and leaves the
\* authoring machine idle (draw mode off), and issues no network call.
C12_CancelClearReturnsToIdle ==
    [][ CancelOrClear
           => /\ currentPoints' = <<>>
              /\ ~drawMode'
              /\ UNCHANGED <<zoneReq, zoneFetches, submitPc>> ]_vars


----------------------------------------------------------------------------
(* Properties of the WebSocket pushes *)

\* C13: after the live monitor or the face-recognition page has handled a
\* face_detection message, detectedFaces is exactly the list of faces that
\* message carries (empty when it carries none), whatever was detected
\* before and whatever messages preceded it.
C13_LatestSnapshot ==
    [][ (page \in {"Live", "Face"}
         /\ lastOp' \in {"ws_message", "ws_message_threw"}
         /\ lastMsg'.type = "face_detection")
           => detectedFaces' = IF lastMsg'.hasFaces THEN lastMsg'.faces
                               ELSE <<>> ]_vars

\* a one-face message was handled and its face is the only one listed
C13_Witness ==
    /\ page \in {"Live", "Face"}
    /\ lastOp = "ws_message"
    /\ lastMsg.type = "face_detection"
    /\ lastMsg.faces = <<Face("Ann", FALSE)>>
    /\ detectedFaces = <<Face("Ann", FALSE)>>


----------------------------------------------------------------------------
(* Properties of the login page and the registration forms *)

\* a text value that is present and has between lo and hi characters
Within(v, lo, hi) == v # "" /\ lo <= Len(v) /\ Len(v) <= hi

\* a registration request went out in this step
RegSent == regPc # "call" /\ regPc' = "call"

\* C15: validation failures never reach the network.  Whenever a login or
\* register request goes out, the slider-verified flag of its form was set and
\* the form satisfied its rules (user name of 3..50 characters, password of
\* 6..100 characters, for registration a confirmation equal to the password);
\* whenever a face-registration request goes out, the name had 2..20
\* characters and a file (upload form) or an uploaded image path (add dialog)
\* was present.
C15_ValidationBlocksRequests ==
    [][ /\ \A r \in authReqs' \ authReqs :
             /\ r.kind = "login" =>
                   /\ isLoginSlideVerified
                   /\ Within(loginForm.username, 3, 50)
                   /\ Within(loginForm.password, 6, 100)
             /\ r.kind = "register" =>
                   /\ isRegisterSlideVerified
                   /\ Within(registerForm.username, 3, 50)
                   /\ Within(registerForm.password, 6, 100)
                   /\ registerForm.confirmPassword = registerForm.password
        /\ RegSent /\ page = "FaceManagement" =>
                   /\ Within(uploadForm.name, 2, 20)
                   /\ uploadForm.file = "raw"
        /\ RegSent /\ page = "Faces" =>
                   /\ Within(addForm.name, 2, 20)
                   /\ addForm.image = "file_path"
      ]_vars

\* the login button was clicked with the slider verified and a password that
\* is too short: nothing was sent
C15_Witness ==
    /\ lastOp = "login_invalid"
    /\ isLoginSlideVerified
    /\ loginForm.username = "admin" /\ loginForm.password = "12345"
    /\ authReqs = {}
    /\ ~loginLoading

----------------------------------------------------------------------------
(* Properties of the failure branches of the REST reads *)

----------------------------------------------------------------------------
(* Properties of retries *)

\* the browser is made to request the stream in this step: an image element
\* with a source is created, or the source of the existing one changes
StreamRequested ==
    /\ videoStreamUrl' # ""
    /\ ImgPresent(page, cameraStatus', videoStreamUrl')
    /\ \/ videoStreamUrl' # videoStreamUrl
       \/ ~ImgPresent(page, cameraStatus, videoStreamUrl)

----------------------------------------------------------------------------
(* Properties of the mutating calls *)

\* the steps in which a mutating call returned successfully
MutationOks == {"submit_ok", "delete_ok", "add_ok", "toggle_ok",
                "mark_read_ok", "mark_all_ok"}

\* the handler of this step goes on to fetch the list of its page
RefetchStarted ==
    \/ submitPc # "refetch" /\ submitPc' = "refetch"
    \/ regPc # "refetch" /\ regPc' = "refetch"
    \/ \E k \in DOMAIN deleteReqs :
          /\ deleteReqs[k].pc = "call"
          /\ deleteReqs' = [deleteReqs EXCEPT ![k].pc = "refetch"]

----------------------------------------------------------------------------
(* Properties of frames with a type the component does not handle *)

\* the step is ws.onmessage for a frame whose type the page has no branch for
UnknownFrameHandled ==
    /\ lastOp' = "ws_message"
    /\ lastMsg' # NoMsg
    /\ lastMsg'.type \notin HandledTypes(page)

\* the reactive data of the pages and the stores
PageData == <<zoneVars, rect, img, cameraStatus, videoStreamUrl, videoError,
              lastClick, consoleLog, camVars, lifeVars, faceVars, events,
              recentEvents, unreadCount, markReqs, storeThrew, detectedFaces,
              recognizedFaces, strangers, dangerZoneViolations,
              realtimeAlerts, systemStatus, systemError, formVars>>

\* C19 as stated: a frame of a type the receiving component does not handle
\* leaves all page and store state of that component unchanged, the canvas
\* included.
C19_UnknownTypeIgnored ==
    [][ UnknownFrameHandled => UNCHANGED <<PageData, canvas, drawn>> ]_vars

\* C19, amended: a frame of a type the receiving component does not handle
\* leaves the reactive data of the page and of the stores unchanged.  In the
\* App shell and the face-recognition page nothing else happens; the live
\* monitor still runs drawVideoFrame after the frame, so its canvas is resized
\* to the image and repainted when the stream image is loaded.
C19_UnknownTypeKeepsData ==
    [][ UnknownFrameHandled =>
           /\ UNCHANGED PageData
           /\ IF page = "Live" /\ mounted
                 /\ LiveDraws(cameraStatus, videoStreamUrl, img)
              THEN /\ canvas' = LiveCanvasAfterDraw(canvas, img)
                   /\ drawn' = LiveLayers
              ELSE UNCHANGED <<canvas, drawn>>
      ]_vars

\* the live monitor received a heartbeat frame and repainted its canvas
C19_Witness ==
    /\ page = "Live"
    /\ lastOp = "ws_message"
    /\ lastMsg.type = "heartbeat"
    /\ drawn = LiveLayers
    /\ canvas # DefaultCanvas

----------------------------------------------------------------------------
(* Properties of the connected indicator of the face-recognition page *)

\* the socket the variable ws refers to is open
CurrentSocketOpen == ws # 0 /\ socks[ws] = "open"

\* C20 as stated: in every reachable state of the face-recognition page
\* wsConnected is true only while the current socket is open.
C20_ConnectedOnlyWhileOpen ==
    page = "Face" /\ wsConnected => CurrentSocketOpen

\* C20, amended: while the face-recognition page is mounted, wsConnected is
\* true only while the current socket is open (and it is true whenever that
\* socket is open).  After onUnmounted has called ws.close() the flag stays
\* true while the socket is closing, until its close event clears it.
C20_ConnectedWhileMounted ==
    page = "Face" =>
       /\ mounted => (wsConnected <=> CurrentSocketOpen)
       /\ wsConnected =>
             \/ CurrentSocketOpen
             \/ ~mounted /\ ws # 0 /\ socks[ws] = "closing"

\* the first socket was closed, the reconnect timer opened a second one and
\* its open event set the flag again
C20_Witness ==
    /\ page = "Face"
    /\ mounted
    /\ wsConnected
    /\ ws = 2
    /\ socks[1] = "closed" /\ socks[2] = "open"


----------------------------------------------------------------------------
(* Properties of reconnection *)

\* C21: reconnection repeats indefinitely.  Every timer a close handler arms
\* carries the same 3000 ms delay, and whenever socket number s has closed
\* (s below the number of sockets the model explores) a further socket is
\* eventually created, unless the component has been unmounted meanwhile.
C21_ReconnectRepeats ==
    /\ [](\A i \in DOMAIN wsTimers : wsTimers[i] = ReconnectDelay)
    /\ \A s \in 1..(MaxSockets - 1) :
          (s \in DOMAIN socks /\ socks[s] = "closed")
             ~> (Len(socks) > s \/ ~mounted)

\* the last socket the model explores was created by a reconnect timer while
\* the component was mounted, after every earlier socket had closed
C21_Witness ==
    /\ mounted
    /\ lastOp = "ws_reconnect"
    /\ Len(socks) = MaxSockets
    /\ \A s \in 1..(MaxSockets - 1) : socks[s] = "closed"


----------------------------------------------------------------------------
(* Properties of the render ticks *)

\* the stream image is absent, not complete or has natural width 0
ImageUnusable ==
    \/ ~ImgPresent(page, cameraStatus, videoStreamUrl)
    \/ ~img.complete
    \/ img.nw = 0

\* the layers that show the image or an overlay (status texts are neither)
ImageLayers == {"image", "zones", "faces", "current"}
LayerSet(d) == {d[i] : i \in DOMAIN d}

\* C22: a tick of any renderer that finds the stream image absent, not
\* complete or of natural width 0 draws neither the image nor an overlay:
\* the zones page repaints the canvas with a status text only, the live
\* monitor and the face-recognition page leave the canvas as it was.
C22_NoDrawWithoutImage ==
    [][(ZonesTick \/ LiveTick \/ FaceTick) /\ ImageUnusable
          => IF page = "Zones"
             THEN LayerSet(drawn') \cap ImageLayers = {}
             ELSE UNCHANGED <<canvas, drawn>>]_vars

\* the live monitor skipped a tick on a broken image (complete, natural
\* width 0) while the canvas still shows the frame of an earlier tick
C22_Witness ==
    /\ page = "Live"
    /\ lastOp = "tick_skipped"
    /\ cameraStatus = "running"
    /\ img.complete /\ img.nw = 0
    /\ drawn = LiveLayers


\* in the canvas content d every layer a comes before every layer b
Before(d, a, b) ==
    \A i, j \in DOMAIN d : d[i] = a /\ d[j] = b => i < j

C24_ExceptionStaysInItsTick ==
    [][ /\ (\E id \in rafPending, at \in {"image", "zones", "faces", "current"} :
               FrameThrows(id, at))
           => /\ animationId' \in rafPending' \ rafPending
              /\ UNCHANGED <<img, cameraStatus, videoStreamUrl, videoError,
                             videoLoaded, mounted, zoneVars, dangerZones>>
        /\ (\E id \in rafPending : Frame(id)) /\ mounted /\ ReachesTry(page)
           => /\ drawn' = PageLayers(page)
              /\ animationId' \in rafPending' \ rafPending
      ]_vars

\* the live monitor drew a complete frame in a tick after one whose draw
\* threw
C24_Witness ==
    /\ page = "Live"
    /\ lastOp = "frame"
    /\ drawErrors > 0
    /\ drawn = LiveLayers
    /\ animationId \in rafPending


\* a tick whose draw function got to its sizing statements
SizingTick ==
    \/ ZonesTick
    \/ LiveTick /\ LiveDraws(cameraStatus, videoStreamUrl, img)
    \/ FaceTick /\ cameraStatus = "running"
                /\ FaceDraws(cameraStatus, videoStreamUrl, img)

\* the backing-store size the page's draw function asks for
RequiredCanvas ==
    IF page = "Face" THEN [w |-> img.nw, h |-> img.nh] ELSE ZonesCanvas

\* C25 as stated: a tick assigns canvas.width / canvas.height only when the
\* required size differs from the canvas's current size.
C25_ResizeOnlyWhenChanged ==
    [][SizingTick /\ resized' => canvas # RequiredCanvas]_vars

\* C25 (amended): the face-recognition page assigns the backing store
\* exactly in the ticks where the canvas differs from the image's natural
\* size; the zones page (in every tick) and the live monitor (in every tick
\* that draws) assign width and height whether or not the size changes.
C25_ResizePerRenderer ==
    [][SizingTick =>
          /\ canvas' = RequiredCanvas
          /\ resized' = IF page = "Face" THEN canvas # RequiredCanvas
                        ELSE TRUE]_vars

\* a face-recognition tick that found the canvas already at the image's
\* size and did not assign it
C25_Witness ==
    /\ page = "Face"
    /\ lastOp = "tick_drawn"
    /\ ~resized
    /\ canvas = [w |-> img.nw, h |-> img.nh]


----------------------------------------------------------------------------
(* Properties of the stores under pushes *)

\* list `a' is an initial part of list `b'
IsPrefix(a, b) ==
    Len(a) <= Len(b) /\ \A i \in DOMAIN a : a[i] = b[i]

\* C26: an event_alert frame handled by the App shell puts its event at the
\* head of events and of recentEvents, the entries the caches held before
\* follow it in their old order (events keeps them all, recentEvents at most
\* its first 49), and unreadCount grows by one exactly when the event is not
\* marked read.
C26_PushedEventFirst ==
    [][\A s \in DOMAIN socks, m \in StoreMessages :
          AppOnMessage(s, m) /\ m.type = "event_alert" =>
             /\ events' = <<m.event>> \o events
             /\ recentEvents' # <<>> /\ recentEvents'[1] = m.event
             /\ IsPrefix(Tail(recentEvents'), recentEvents)
             /\ Len(recentEvents') =
                   IF Len(recentEvents) < RecentCap
                   THEN Len(recentEvents) + 1 ELSE RecentCap
             /\ unreadCount' = IF m.event.is_read THEN unreadCount
                               ELSE unreadCount + 1]_vars

\* a read event pushed onto caches that already hold two entries each
C26_Witness ==
    /\ page = "App"
    /\ lastOp = "ws_message"
    /\ lastMsg.type = "event_alert"
    /\ lastMsg.event = Ev(1, TRUE)
    /\ Len(events) = 3 /\ events[1] = Ev(1, TRUE)
    /\ events[2] = Ev(2, FALSE) /\ events[3] = Ev(1, TRUE)
    /\ Len(recentEvents) = 3 /\ recentEvents[1] = Ev(1, TRUE)
    /\ recentEvents[2] # recentEvents[3]


\* a frame or response wrote the system-status cache
StatusPushed(s, m) == AppOnMessage(s, m) /\ m.type = "system_status"

\* C27 as stated: after every write the cache equals the payload of that
\* write, whether it came from a successful status fetch or from a
\* system_status frame.
C27_LastWriteWins ==
    [][/\ \A st \in StatusResponses :
             AppMountStatus(TRUE, st) => systemStatus' = st
       /\ \A s \in DOMAIN socks, m \in StoreMessages :
             StatusPushed(s, m) => systemStatus' = m.status]_vars

\* C27 (amended): a successful status fetch replaces the cache by the
\* response; a system_status frame is merged into it field by field: the
\* fields the frame carries take the frame's values, the fields it does not
\* carry keep the values of the earlier writes.
C27_FetchReplacesPushMerges ==
    [][/\ \A st \in StatusResponses :
             AppMountStatus(TRUE, st) => systemStatus' = st
       /\ \A s \in DOMAIN socks, m \in StoreMessages :
             StatusPushed(s, m) =>
                /\ DOMAIN systemStatus' =
                      DOMAIN systemStatus \cup DOMAIN m.status
                /\ \A f \in DOMAIN m.status : systemStatus'[f] = m.status[f]
                /\ \A f \in DOMAIN systemStatus \ DOMAIN m.status :
                      systemStatus'[f] = systemStatus[f]]_vars

\* a frame carrying video_service only was pushed after the fetch answered
\* "degraded": the cache still holds the fetched overall_status
C27_Witness ==
    /\ lastOp = "ws_message"
    /\ lastMsg.type = "system_status"
    /\ lastMsg.status = [video_service |-> "stopped"]
    /\ systemStatus = [overall_status |-> "degraded",
                       video_service |-> "stopped"]


----------------------------------------------------------------------------
(* Properties of the zone list's two consumers *)

\* C28: a successful GET /api/zone answering with the envelope around a zone
\* list leaves that list in the zones page's zones and in the live
\* monitor's dangerZones.
C28_BothConsumersGetData ==
    [][\A list \in ZoneLists :
          /\ ZonesMountFetched(TRUE, list) => zones' = list
          /\ LiveMountLoaded(TRUE, list) => dangerZones' = list]_vars


----------------------------------------------------------------------------
(* Properties of the zone dialog's target *)

\* C29: a dialog opened by finishing a drawing is a create dialog.  When
\* handleRightClick accepts the polygon no zone is the editing target, and a
\* submission sent from the dialog it opened is a POST without a zone id.
C29_FinishedDrawingIsCreate ==
    [][/\ lastOp' = "finish_accepted" => editingZone' = 0
       /\ lastOp = "finish_accepted" /\ lastOp' = "submit_sent"
             => zoneReq'.kind = "post" /\ zoneReq'.id = 0]_vars


----------------------------------------------------------------------------
(* Properties of overlapping status toggles *)

\* C30: once every status request has completed, each row of the list (as
\* loaded once, not refetched since) shows the active flag the backend
\* holds, which is the value of the last toggle it accepted or, if it
\* accepted none, the value the list was loaded with.
C30_SettledSwitchMatchesBackend ==
    toggleReqs = <<>> /\ faceGen = 1 =>
        \A i \in DOMAIN faces : faces[i].is_active = serverActive[faces[i].id]


----------------------------------------------------------------------------
(* Properties of the unread counter *)

\* the unreadEvents getter: the unread entries of recentEvents
UnreadEvents == {i \in DOMAIN recentEvents : ~recentEvents[i].is_read}

\* unreadCount agrees with the unreadEvents getter
CountConsistent == unreadCount = Cardinality(UnreadEvents)

\* a step of addRealtimeEvent, markEventAsRead or markAllAsRead
CounterStep ==
    lastOp' \in {"push_event", "mark_read_ok", "mark_read_failed",
                 "mark_all_ok", "mark_all_failed"}

\* C31: addRealtimeEvent, markEventAsRead and markAllAsRead keep unreadCount
\* equal to the number of unread entries of recentEvents.
C31_CountStaysConsistent ==
    [][CountConsistent /\ CounterStep => CountConsistent']_vars


----------------------------------------------------------------------------
(* Properties of the live monitor's face lists *)

\* C32: in the live monitor, once a face_detection frame has been handled,
\* recognizedFaces holds exactly the detected faces that are not strangers
\* and strangers exactly those that are, in the order of detectedFaces.
C32_FaceListsPartitionDetected ==
    page = "Live" /\ lastMsg.type = "face_detection" =>
        /\ recognizedFaces = Filter(detectedFaces, FALSE)
        /\ strangers = Filter(detectedFaces, TRUE)


----------------------------------------------------------------------------
(* Properties of the camera state *)

\* C33 as stated: in the live monitor and the face-recognition page the
\* stream URL is non-empty exactly when cameraStatus is 'running', in every
\* state.
C33_UrlIffRunning ==
    page \in {"Live", "Face"} =>
        (videoStreamUrl # "" <=> cameraStatus = "running")

\* C33 (amended): in both pages a running camera always has the MJPEG URL.
\* In the live monitor the URL is empty whenever the camera is not running.
\* In the face-recognition page the URL of a camera that is not running is
\* either empty or still the default the page was constructed with, which
\* stays until a start, stop or status check succeeds.
C33_UrlFollowsStatus ==
    page \in {"Live", "Face"} =>
        /\ cameraStatus = "running" => videoStreamUrl = "mjpeg"
        /\ cameraStatus # "running" /\ page = "Live" => videoStreamUrl = ""
        /\ cameraStatus # "running" /\ page = "Face" =>
              \/ videoStreamUrl = ""
              \/ videoStreamUrl = "video_stream" /\ cameraStatus = "stopped"

\* the face-recognition page after a status check that failed: stopped,
\* with the constructor's URL
C33_Witness ==
    /\ page = "Face"
    /\ lastOp = "camera_status_failed"
    /\ cameraStatus = "stopped"
    /\ videoStreamUrl = "video_stream"


----------------------------------------------------------------------------
(* Properties of the login page and its slider *)

\* C34: on the login page the verified flag of the form on display is never
\* true while the slider on display is unverified, so a login or register
\* request is only sent with a verified slider; this includes the states
\* after a tab switch, which destroys the slider and creates a new one.
C34_FlagImpliesSliderVerified ==
    page = "Login" /\ mounted =>
        /\ activeTab = "login" /\ isLoginSlideVerified => isVerified
        /\ activeTab = "register" /\ isRegisterSlideVerified => isVerified
        /\ lastOp \in {"login_sent", "register_sent"} => isVerified


\* C35: when a login or register request fails (success:false or a network
\* error) the verified flag of that form is cleared and the slider on
\* display is reset, so the form cannot be sent again before a new drag
\* reaches the end of the track.
C35_FailureClearsVerification ==
    [][\A req \in authReqs, o \in Outcomes \ {"ok"} :
          /\ LoginDone(req, o) =>
                ~isLoginSlideVerified' /\ ~isVerified' /\ thumbLeft' = 0
          /\ RegisterDone(req, o) =>
                ~isRegisterSlideVerified' /\ ~isVerified' /\ thumbLeft' = 0
      ]_vars


----------------------------------------------------------------------------
(* Properties of the caches of the events store *)

\* C36: after any addRealtimeEvent the recent-events cache holds at most 50
\* entries, and they are the most recently pushed events, newest first: the
\* cache is the first min(50, n) entries of the events list, which keeps all
\* n pushed events, newest first, and is never truncated by a push.
C36_RecentIsNewestFifty ==
    /\ Len(recentEvents) <= RecentCap
    /\ Len(recentEvents) = Min2(Len(events), RecentCap)
    /\ \A i \in DOMAIN recentEvents : recentEvents[i] = events[i]
    /\ \A i \in DOMAIN events : events[i].id = Len(events) - i + 1

\* a push has dropped the oldest entry of the full recent-events cache
C36_Witness ==
    /\ lastOp = "ws_message"
    /\ Len(events) > RecentCap
    /\ Len(recentEvents) = RecentCap
    /\ recentEvents[1].id = Len(events)
    /\ recentEvents[RecentCap].id = Len(events) - RecentCap + 1


----------------------------------------------------------------------------
(* Properties of the camera button of the zones page *)

\* C37: in the zones page startCamera issues POST /api/video/camera/start
\* and runs to one of its outcomes, a success response setting cameraStatus
\* to 'running' and the stream URL to the MJPEG endpoint; the busy flag it
\* sets is cleared in every outcome.
C37_ZonesStartCameraRuns ==
    [][\A ok \in BOOLEAN :
          ZonesStartCamera(ok) =>
              /\ lastOp' \in {"camera_start_ok", "camera_start_failed"}
              /\ ok => cameraStatus' = "running" /\ videoStreamUrl' = "mjpeg"
      ]_vars


----------------------------------------------------------------------------
(* Properties of the slide-to-verify control *)

SlideEmits == {"verify_success", "verify_fail"}

\* C38: every endSlide that ends a drag emits exactly one of verify-success
\* and verify-fail, verify-success only when the thumb is released within 5
\* px of the right end of the track; whatever is emitted ends a drag of an
\* unverified slider, and once the slider is verified a mousedown starts no
\* drag and no step emits anything until reset() clears isVerified.
C38_OneEmitPerDrag ==
    [][/\ EndSlide =>
             /\ lastOp' \in SlideEmits
             /\ lastOp' = "verify_fail" <=>
                   (TrackWidth - ThumbWidth) - thumbLeft > EndTolerance
       /\ lastOp' = "verify_success" =>
             /\ isDragging /\ ~isDragging' /\ ~isVerified
             /\ (TrackWidth - ThumbWidth) - thumbLeft <= EndTolerance
       /\ lastOp' = "verify_fail" =>
             isDragging /\ ~isDragging' /\ ~isVerified
       /\ isVerified => lastOp' \notin SlideEmits /\ ~isDragging'
       /\ isVerified /\ StartSlide => lastOp' = "slide_ignored"
      ]_vars

\* a mousedown on the thumb of the verified slider was ignored
C38_Witness ==
    /\ page = "Login"
    /\ lastOp = "slide_ignored"
    /\ isVerified
    /\ ~isDragging

\* C39: in every reachable state of the slider thumbLeft lies in
\* 0..(trackWidth - thumbWidth), that is 0..260, and equals
\* trackWidth - thumbWidth whenever isVerified is true.
C39_ThumbInTrack ==
    /\ thumbLeft \in 0..(TrackWidth - ThumbWidth)
    /\ TrackWidth - ThumbWidth = 260
    /\ isVerified => thumbLeft = TrackWidth - ThumbWidth

\* a release one pixel inside the tolerance verified the slider and snapped
\* the thumb to the end of the track
C39_Witness ==
    /\ page = "Login"
    /\ lastOp = "verify_success"
    /\ isVerified
    /\ thumbLeft = TrackWidth - ThumbWidth

=============================================================================
